---- MODULE Spec2Model ----
(***************************************************************************)
(* Finance_ETL: change-detection upsert (src/src/merge.py), audit ledger   *)
(* (src/src/audit.py) and state images / rollback (src/src/state.py).      *)
(*                                                                         *)
(* The relational store is PostgreSQL (src/src/db.py:35).  Two staging     *)
(* tables are modelled, each row reduced to two business columns           *)
(* (order_date, region), the metadata column source_row_num, the           *)
(* fingerprint row_hash and last_change_event_id.  For the budget table    *)
(* the two business columns stand for date / department.  Timestamps       *)
(* (last_updated_at, created_at) are not modelled; the ledger and the      *)
(* image table are sequences in insertion order, which is created_at       *)
(* order.  Identifiers (uuid4) are modelled by fresh naturals.              *)
(***************************************************************************)
EXTENDS Integers, Sequences, FiniteSets, TLC

VARIABLES tbl, changeEvents, rowChanges, stateImages, head, args, hist, running

vars == <<tbl, changeEvents, rowChanges, stateImages, head, args, hist, running>>
store == <<tbl, changeEvents, rowChanges, stateImages, head>>

(***************************************************************************)
(* Bounds                                                                  *)
(***************************************************************************)
MaxPk == 1          \* number of distinct well-formed primary keys
MaxRows == 2        \* rows of an incoming frame
MaxCalls == 3       \* calls of merge_upsert / rollback in one behaviour of SpecMerge
MaxOps == 4         \* calls of the core's operations in one behaviour of SpecState
MaxImages == 3      \* state images of an arbitrary image table (SpecCorrupt)
MaxWalks == 1       \* point-in-time rollbacks in one behaviour of SpecCorrupt
MaxProcs == 2       \* processes calling create_state_image at the same time (SpecImage)
MaxBegins == 3      \* create_state_image calls started in one behaviour of SpecImage
MaxRuns == 2        \* runs (ingestions, bootstrap loads) started in one behaviour of SpecRun
MaxGold == 2        \* rows of the gold CSV of a bootstrap load
MaxHashCalls == 2   \* calls of _compute_row_hash in one behaviour of SpecHash

(***************************************************************************)
(* Values                                                                  *)
(***************************************************************************)
Null == "NULL"                       \* None / NaN / SQL NULL
NoRow == [absent |-> TRUE]           \* existing is None / db_before is None
NoId == 0                            \* a null uuid reference

\* running[p] is the create_state_image call process p is in, with the
\* values it holds between its transactions; no call is in progress outside
\* SpecImage
Procs == 1..MaxProcs
Idle == [pc |-> "idle"]
NoneRunning == [p \in Procs |-> Idle]

Sales == "stg_sales_orders"
Budget == "stg_budget_transactions"
Tables == {Sales, Budget}

\* primary-key column of each table (pipeline.py: pk_col arguments)
PkCol(t) == IF t = Sales THEN "order_id" ELSE "transaction_id"

PkNames == <<"k1", "k2", "k3">>
Pks == {PkNames[i] : i \in 1..MaxPk}
DateVals == {"d1", "d2"}
RegionVals == {Null, "", "r1"}

\* compare_cols without pk_col, hash_col and meta_cols (merge.py:172)
business_cols == <<"order_date", "region">>
meta_cols == {"source_row_num"}

Range(s) == {s[i] : i \in 1..Len(s)}

(***************************************************************************)
(* Fingerprint (pipeline.py:48-61): fillna(""), astype(str), then a hash   *)
(* of the row's values taken in the order of cols.  The 64-bit hash is     *)
(* modelled as injective on the normalised values: the "|"-joined string.  *)
(***************************************************************************)
FillNa(v) == IF v = Null THEN "" ELSE v

RECURSIVE HashJoin(_, _)
HashJoin(row, cols) ==
    IF cols = <<>> THEN ""
    ELSE FillNa(row[Head(cols)]) \o "|" \o HashJoin(row, Tail(cols))

compute_row_hash(row, cols) == HashJoin(row, cols)

\* hash columns of a staging frame (pipeline.py:147, 168), reduced to the
\* modelled business columns
hash_cols == <<"order_date", "region">>


(***************************************************************************)
(* merge_upsert (merge.py:73-329)                                          *)
(***************************************************************************)
\* str.strip() on the modelled key values
Strip(s) == IF s = " " THEN "" ELSE s

\* bad_pk_mask (merge.py:132): isna() | (astype(str).str.strip() == "")
bad_pk(pk) == pk = Null \/ Strip(pk) = ""

\* _diff_cols (merge.py:34-42)
diff_cols(existing, incoming, cols) ==
    IF existing = NoRow THEN cols
    ELSE SelectSeq(cols, LAMBDA c : existing[c] # incoming[c])

\* ex_h (merge.py:185)
ex_hash(existing) == IF existing = NoRow THEN Null ELSE existing.row_hash

\* hash short-circuit (merge.py:188)
hash_match(existing, incoming) ==
    /\ existing # NoRow
    /\ incoming.row_hash # Null
    /\ ex_hash(existing) # Null
    /\ incoming.row_hash = ex_hash(existing)

\* variant: the business-column guard of the conflict test inverted
conflict_cols_guard_inverted(existing, incoming, protected_cols) ==
    IF existing = NoRow THEN <<>>
    ELSE SelectSeq(protected_cols,
                   LAMBDA c : c \notin Range(business_cols) /\ existing[c] # incoming[c])

\* variant: every business column treated as protected
conflict_cols_all_business(existing, incoming, protected_cols) ==
    IF existing = NoRow THEN <<>>
    ELSE SelectSeq(business_cols, LAMBDA c : existing[c] # incoming[c])

\* conflict rules (merge.py:232-236)
conflict_cols(existing, incoming, protected_cols) ==
    IF existing = NoRow THEN <<>>
    ELSE SelectSeq(protected_cols,
                   LAMBDA c : c \in Range(business_cols) /\ existing[c] # incoming[c])

\* variant: without the test for identical business columns, so that a
\* fingerprint mismatch alone makes an update
classify_drift_as_update(existing, incoming, protected_cols) ==
    IF hash_match(existing, incoming) THEN "SHORT"
    ELSE IF conflict_cols(existing, incoming, protected_cols) # <<>> THEN "CONFLICT"
    ELSE IF existing = NoRow THEN "INSERT"
    ELSE "UPDATE"

\* the branch of the scan loop an incoming row takes (merge.py:188-281)
classify(existing, incoming, protected_cols) ==
    IF hash_match(existing, incoming) THEN "SHORT"
    ELSE IF existing # NoRow /\ diff_cols(existing, incoming, business_cols) = <<>>
    THEN "SAME"
    ELSE IF conflict_cols(existing, incoming, protected_cols) # <<>> THEN "CONFLICT"
    ELSE IF existing = NoRow THEN "INSERT"
    ELSE "UPDATE"

\* variant: the backfill without its dry-run guard
backfill_wanted_any_run(existing, incoming, dry_run) ==
    /\ incoming.row_hash # Null
    /\ (ex_hash(existing) = Null \/ ex_hash(existing) # incoming.row_hash)

\* backfill condition (merge.py:202-208), backfill_hash left at its default
backfill_wanted(existing, incoming, dry_run) ==
    /\ ~dry_run
    /\ incoming.row_hash # Null
    /\ (ex_hash(existing) = Null \/ ex_hash(existing) # incoming.row_hash)

\* UPDATE ... SET row_hash, last_change_event_id WHERE pk (merge.py:211-222)
backfill(T, incoming, eid) ==
    IF incoming.pk \in DOMAIN T
    THEN [T EXCEPT ![incoming.pk] =
            [@ EXCEPT !.row_hash = incoming.row_hash, !.last_change_event_id = eid]]
    ELSE T

\* variant: the entry is written without the id of its change event
log_row_change_unowned(ledger, rc) == Append(ledger, [rc EXCEPT !.change_event_id = NoId])

\* variant: an entry for the same table and key replaces the earlier one
log_row_change_keyed(ledger, rc) ==
    Append(SelectSeq(ledger, LAMBDA o : o.table_name # rc.table_name \/ o.pk # rc.pk), rc)

\* log_row_change (audit.py:68-109): one appended ledger entry
RowChange(eid, table, pk, op, changed, before, after, applied, conflict) ==
    [change_event_id |-> eid, table_name |-> table, pk |-> pk, op |-> op,
     changed_columns |-> changed, db_before |-> before, db_after |-> after,
     applied |-> applied, conflict |-> conflict]

log_row_change(ledger, rc) == Append(ledger, rc)

ZeroStats == [inserted |-> 0, updated |-> 0, unchanged |-> 0, conflicted |-> 0, rejected |-> 0]

\* one iteration of the scan loop (merge.py:177-301); acc carries the table,
\* the ledger, the staged writes and the counters
scan_row(acc, existing_map, row, eid, table, protected_cols, dry_run) ==
    LET existing == IF row.pk \in DOMAIN existing_map THEN existing_map[row.pk] ELSE NoRow
        cls == classify(existing, row, protected_cols)
        changed == diff_cols(existing, row, business_cols)
    IN  IF cls = "SHORT" THEN
            [acc EXCEPT !.stats.unchanged = @ + 1, !.classes = Append(@, "UNCHANGED")]
        ELSE IF cls = "SAME" THEN
            [acc EXCEPT !.stats.unchanged = @ + 1, !.classes = Append(@, "UNCHANGED"),
                        !.T = IF backfill_wanted(existing, row, dry_run)
                              THEN backfill(@, row, eid) ELSE @,
                        !.backfilled = IF backfill_wanted(existing, row, dry_run)
                                       THEN @ + 1 ELSE @]
        ELSE IF cls = "CONFLICT" THEN
            [acc EXCEPT !.stats.conflicted = @ + 1, !.classes = Append(@, "CONFLICT"),
                        !.ledger = IF dry_run THEN @
                                   ELSE log_row_change(@,
                                          RowChange(eid, table, row.pk, "UPDATE", changed,
                                                    existing, row, FALSE, TRUE)),
                        !.conflicts = Append(@, [pk |-> row.pk,
                                                 conflict_columns |->
                                                   conflict_cols(existing, row, protected_cols),
                                                 db_before |-> existing,
                                                 patch_after |-> row])]
        ELSE
            [acc EXCEPT !.stats.inserted = IF cls = "INSERT" THEN @ + 1 ELSE @,
                        !.stats.updated = IF cls = "UPDATE" THEN @ + 1 ELSE @,
                        !.classes = Append(@, cls),
                        !.writes = IF dry_run THEN @
                                   ELSE Append(@, [row |-> row, op |-> cls,
                                                   changed_columns |-> changed,
                                                   db_before |-> existing])]

\* variant: the rows with a bad key are dropped without being counted
RECURSIVE scan_rejects_uncounted(_, _, _, _, _, _, _)
scan_rejects_uncounted(acc, existing_map, df, eid, table, protected_cols, dry_run) ==
    IF df = <<>> THEN acc
    ELSE LET row == Head(df)
             nxt == IF bad_pk(row.pk)
                    THEN [acc EXCEPT !.classes = Append(@, "REJECTED")]
                    ELSE scan_row(acc, existing_map, row, eid, table, protected_cols, dry_run)
         IN  scan_rejects_uncounted(nxt, existing_map, Tail(df), eid, table, protected_cols,
                                    dry_run)

\* the scan loop over the frame; rows with a bad key were dropped before it
\* (merge.py:131-137) and are counted as rejected
RECURSIVE scan(_, _, _, _, _, _, _)
scan(acc, existing_map, df, eid, table, protected_cols, dry_run) ==
    IF df = <<>> THEN acc
    ELSE LET row == Head(df)
             nxt == IF bad_pk(row.pk)
                    THEN [acc EXCEPT !.stats.rejected = @ + 1,
                                     !.classes = Append(@, "REJECTED")]
                    ELSE scan_row(acc, existing_map, row, eid, table, protected_cols, dry_run)
         IN  scan(nxt, existing_map, Tail(df), eid, table, protected_cols, dry_run)

\* variant: ON CONFLICT (pk) DO NOTHING, an existing row is left as it is
upsert_do_nothing(T, row, eid) ==
    LET stored == [pk |-> row.pk, order_date |-> row.order_date, region |-> row.region,
                   source_row_num |-> row.source_row_num, row_hash |-> row.row_hash,
                   last_change_event_id |-> eid]
    IN  [k \in DOMAIN T \cup {row.pk} |-> IF k \in DOMAIN T THEN T[k] ELSE stored]

\* INSERT ... ON CONFLICT (pk) DO UPDATE SET every written column (merge.py:154-169, 293-295)
upsert(T, row, eid) ==
    LET stored == [pk |-> row.pk, order_date |-> row.order_date, region |-> row.region,
                   source_row_num |-> row.source_row_num, row_hash |-> row.row_hash,
                   last_change_event_id |-> eid]
    IN  [k \in DOMAIN T \cup {row.pk} |-> IF k = row.pk THEN stored ELSE T[k]]

\* the batch write of the staged rows, in order (merge.py:304-307)
RECURSIVE batch_write(_, _, _)
batch_write(T, writes, eid) ==
    IF writes = <<>> THEN T
    ELSE batch_write(upsert(T, Head(writes).row, eid), Tail(writes), eid)

\* one applied RowChange per staged row, after the batch write (merge.py:309-322)
RECURSIVE audit_writes(_, _, _, _)
audit_writes(ledger, writes, eid, table) ==
    IF writes = <<>> THEN ledger
    ELSE LET a == Head(writes)
         IN  audit_writes(
                 log_row_change(ledger,
                     RowChange(eid, table, a.row.pk, a.op, a.changed_columns,
                               a.db_before, a.row, TRUE, FALSE)),
                 Tail(writes), eid, table)

\* the batch write and its audit, after the scan (merge.py:303-329): the
\* table of the target and the ledger after the call, with the returned
\* stats, conflict rows and per-row classification
write_staged(acc, eid, table, dry_run) ==
    LET written == (~dry_run) /\ acc.writes # <<>>
    IN  [T |-> IF written THEN batch_write(acc.T, acc.writes, eid) ELSE acc.T,
         ledger |-> IF written THEN audit_writes(acc.ledger, acc.writes, eid, table)
                    ELSE acc.ledger,
         stats |-> acc.stats, classes |-> acc.classes, conflicts |-> acc.conflicts,
         hash_backfilled_count |-> acc.backfilled]

merge_upsert(T, ledger, eid, table, df, protected_cols, dry_run) ==
    write_staged(scan([T |-> T, ledger |-> ledger, writes |-> <<>>, stats |-> ZeroStats,
                       classes |-> <<>>, conflicts |-> <<>>, backfilled |-> 0],
                      T, df, eid, table, protected_cols, dry_run),
                 eid, table, dry_run)


(***************************************************************************)
(* Change ledger (audit.py).  changeEvents[e] is the row of change event   *)
(* e; a new event takes the next free id.                                  *)
(***************************************************************************)
\* start_change_event (audit.py:25-65): INSERT ... status 'RUNNING'
start_change_event(events, source_name, dry_run) ==
    Append(events, [status |-> "RUNNING", source_name |-> source_name, dry_run |-> dry_run,
                    rollback_of |-> NoId,
                    inserted_count |-> 0, updated_count |-> 0, unchanged_count |-> 0,
                    conflicted_count |-> 0, rejected_count |-> 0])

\* finish_change_event (audit.py:112-150): UPDATE ... WHERE change_event_id = :id
finish_change_event(events, eid, status, stats) ==
    IF eid \in DOMAIN events
    THEN [events EXCEPT ![eid] =
            [@ EXCEPT !.status = status,
                      !.inserted_count = stats.inserted, !.updated_count = stats.updated,
                      !.unchanged_count = stats.unchanged,
                      !.conflicted_count = stats.conflicted,
                      !.rejected_count = stats.rejected]]
    ELSE events

(***************************************************************************)
(* State images and HEAD (state.py).  stateImages[s] is the image with id  *)
(* s; head is the pointer row's current_state_image_id (NoId when NULL).   *)
(***************************************************************************)
\* variant: the lookup of an event's image finds nothing
get_state_image_never(images, eid) == NoId

\* _get_state_image_by_change_event (state.py:109-125): first matching row
get_state_image_by_change_event(images, eid) ==
    LET hits == {s \in DOMAIN images : images[s].change_event_id = eid}
    IN  IF hits = {} THEN NoId ELSE CHOOSE s \in hits : \A o \in hits : s <= o

\* variant: the UPDATE of the pointer row matches no row
set_head_skipped(S, sid) == S

\* set_head (state.py:222-258)
set_head(S, sid) == [S EXCEPT !.head = sid]

\* variant: the parent is read from HEAD after HEAD has moved to the new image
create_state_image_parent_after(S, eid, notes) ==
    LET existing == get_state_image_by_change_event(S.stateImages, eid)
    IN  IF existing # NoId THEN
            LET backfill_notes == notes # "" /\ S.stateImages[existing].notes = ""
                S1 == IF backfill_notes
                      THEN [S EXCEPT !.stateImages[existing].notes = notes]
                      ELSE S
            IN  [S |-> set_head(S1, existing), ret |-> existing]
        ELSE
            LET sid == Len(S.stateImages) + 1
                parent == sid
                S1 == [S EXCEPT !.stateImages =
                          Append(@, [change_event_id |-> eid,
                                     parent_state_image_id |-> parent,
                                     notes |-> notes])]
                created == get_state_image_by_change_event(S1.stateImages, eid)
            IN  [S |-> IF created # NoId THEN set_head(S1, created) ELSE S1,
                 ret |-> created]

\* create_state_image (state.py:270-323); ret is the id of the returned image
create_state_image(S, eid, notes) ==
    LET existing == get_state_image_by_change_event(S.stateImages, eid)
    IN  IF existing # NoId THEN
            LET backfill_notes == notes # "" /\ S.stateImages[existing].notes = ""
                S1 == IF backfill_notes
                      THEN [S EXCEPT !.stateImages[existing].notes = notes]
                      ELSE S
            IN  [S |-> set_head(S1, existing), ret |-> existing]
        ELSE
            LET sid == Len(S.stateImages) + 1
                parent == S.head
                S1 == [S EXCEPT !.stateImages =
                          Append(@, [change_event_id |-> eid,
                                     parent_state_image_id |-> parent,
                                     notes |-> notes])]
                created == get_state_image_by_change_event(S1.stateImages, eid)
            IN  [S |-> IF created # NoId THEN set_head(S1, created) ELSE S1,
                 ret |-> created]

(***************************************************************************)
(* rollback_change_event (state.py:330-439).  The inverse writes and the   *)
(* new change event share one transaction (state.py:341).  On PostgreSQL a *)
(* failed statement aborts the transaction: every later statement of it    *)
(* fails too, whether or not the Python code catches the first error, and  *)
(* the uncaught final UPDATE (state.py:418-427) then raises and the        *)
(* transaction is rolled back.                                             *)
(***************************************************************************)
pk_candidates == <<"order_id", "transaction_id", "id">>

\* the applied RowChanges of an event, newest first (state.py:362-373)
applied_rows_desc(ledger, eid) ==
    LET hit == SelectSeq(ledger, LAMBDA r : r.change_event_id = eid /\ r.applied)
    IN  [i \in 1..Len(hit) |-> hit[Len(hit) + 1 - i]]

\* INSERT -> DELETE by the first candidate key column (state.py:381-391): the
\* first candidate is tried first; it is no column of the budget table
invert_insert(acc, r) ==
    IF acc.aborted THEN acc
    ELSE IF PkCol(r.table_name) = pk_candidates[1]
    THEN [acc EXCEPT !.tbl[r.table_name] =
             [k \in DOMAIN @ \ {r.pk} |-> @[k]]]
    ELSE [acc EXCEPT !.aborted = TRUE]

\* UPDATE -> restore db_before (state.py:393-416): every column of the
\* before-image is written back where the key column matches
invert_update(acc, r) ==
    IF acc.aborted \/ r.db_before = NoRow THEN acc
    ELSE IF r.db_before.pk \in DOMAIN acc.tbl[r.table_name]
    THEN [acc EXCEPT !.tbl[r.table_name][r.db_before.pk] = r.db_before]
    ELSE acc

invert_row(acc, r) ==
    IF r.op = "INSERT" THEN invert_insert(acc, r)
    ELSE IF r.op = "UPDATE" THEN invert_update(acc, r)
    ELSE acc

RECURSIVE invert_all(_, _)
invert_all(acc, rows) ==
    IF rows = <<>> THEN acc ELSE invert_all(invert_row(acc, Head(rows)), Tail(rows))

rollback_change_event(S, change_event_id) ==
    LET rollback_eid == Len(S.changeEvents) + 1
        started == [start_change_event(S.changeEvents, "rollback", FALSE)
                        EXCEPT ![rollback_eid].rollback_of = change_event_id]
        rows == applied_rows_desc(S.rowChanges, change_event_id)
        acc == invert_all([tbl |-> S.tbl, aborted |-> FALSE], rows)
        done == [S EXCEPT !.tbl = acc.tbl,
                          !.changeEvents = [started EXCEPT ![rollback_eid].status = "SUCCESS"]]
    IN  IF acc.aborted
        THEN [S |-> S, status |-> "RAISED", change_event_id |-> NoId]
        ELSE [S |-> create_state_image(done, rollback_eid, "rollback").S,
              status |-> "SUCCESS", change_event_id |-> rollback_eid]


(***************************************************************************)
(* rollback_to_point_in_time (state.py:446-508)                            *)
(***************************************************************************)
\* _collect_head_to_target_chain (state.py:128-158): the while loop, one
\* iteration per call; chain is the list of image ids gathered so far
RECURSIVE walk_chain(_, _, _, _, _)
walk_chain(images, cur, seen, chain, target_sid) ==
    IF cur = NoId THEN [status |-> "UNREACHABLE", chain |-> chain]
    ELSE IF cur \in seen THEN [status |-> "CYCLE", chain |-> chain]
    ELSE IF cur \notin DOMAIN images THEN [status |-> "IMAGE_NOT_FOUND", chain |-> chain]
    ELSE IF cur = target_sid THEN [status |-> "OK", chain |-> Append(chain, cur)]
    ELSE walk_chain(images, images[cur].parent_state_image_id, seen \cup {cur},
                    Append(chain, cur), target_sid)

\* variant: a walk that ends at a root without meeting the target is accepted
collect_chain_to_root(images, head_state_image_id, target_state_image_id) ==
    LET w == walk_chain(images, head_state_image_id, {}, <<>>, target_state_image_id)
    IN  IF w.status = "UNREACHABLE" THEN [w EXCEPT !.status = "OK"] ELSE w

\* variant: the list is returned target first
collect_chain_reversed(images, head_state_image_id, target_state_image_id) ==
    LET w == walk_chain(images, head_state_image_id, {}, <<>>, target_state_image_id)
    IN  [w EXCEPT !.chain = [k \in 1..Len(w.chain) |-> w.chain[Len(w.chain) + 1 - k]]]

\* variant: a walk that ends at a root raises the missing-image error
collect_chain_wrong_error(images, head_state_image_id, target_state_image_id) ==
    LET w == walk_chain(images, head_state_image_id, {}, <<>>, target_state_image_id)
    IN  IF w.status = "UNREACHABLE" THEN [w EXCEPT !.status = "IMAGE_NOT_FOUND"] ELSE w

collect_head_to_target_chain(images, head_state_image_id, target_state_image_id) ==
    walk_chain(images, head_state_image_id, {}, <<>>, target_state_image_id)

\* the loop over chain[:-1] (state.py:490-500): acc carries the store, the
\* rollback ids returned so far, the events rollback_change_event was called
\* on, and whether a call raised (which ends the loop)
RECURSIVE rollback_each(_, _, _)
rollback_each(acc, images, sids) ==
    IF sids = <<>> \/ acc.raised THEN acc
    ELSE LET eid == images[Head(sids)].change_event_id
             r == rollback_change_event(acc.S, eid)
         IN  rollback_each(
                 [S |-> r.S,
                  rollback_ids |-> IF r.status = "SUCCESS"
                                   THEN Append(acc.rollback_ids, r.change_event_id)
                                   ELSE acc.rollback_ids,
                  rolled |-> IF r.status = "SUCCESS" THEN acc.rolled + 1 ELSE acc.rolled,
                  calls |-> Append(acc.calls, eid),
                  raised |-> r.status # "SUCCESS"],
                 images, Tail(sids))

\* variant: the no-op test compares against the empty chain
chain_is_empty(chain) == Len(chain) = 0

\* len(chain) == 1 (state.py:480)
chain_is_head_only(chain) == Len(chain) = 1

\* chain[:-1] (state.py:492)
images_after_target(chain) == SubSeq(chain, 1, Len(chain) - 1)

rollback_to_point_in_time(S, target_change_event_id) ==
    LET target_sid == get_state_image_by_change_event(S.stateImages, target_change_event_id)
        none == [S |-> S, rolled_back_count |-> 0, rollback_change_event_ids |-> <<>>,
                 calls |-> <<>>, chain |-> <<>>]
    IN  IF S.head = NoId THEN none @@ [status |-> "NO_HEAD"]
        ELSE IF target_sid = NoId THEN none @@ [status |-> "NO_TARGET_IMAGE"]
        ELSE LET w == collect_head_to_target_chain(S.stateImages, S.head, target_sid)
             IN  IF w.status # "OK" THEN none @@ [status |-> w.status]
                 ELSE IF chain_is_head_only(w.chain)
                 THEN [none EXCEPT !.chain = w.chain] @@ [status |-> "NO_OP"]
                 ELSE LET acc == rollback_each(
                                     [S |-> S, rollback_ids |-> <<>>, rolled |-> 0,
                                      calls |-> <<>>, raised |-> FALSE],
                                     S.stateImages, images_after_target(w.chain))
                      IN  [S |-> acc.S,
                           status |-> IF acc.raised THEN "RAISED" ELSE "SUCCESS",
                           rolled_back_count |-> acc.rolled,
                           rollback_change_event_ids |-> acc.rollback_ids,
                           calls |-> acc.calls, chain |-> w.chain]


(***************************************************************************)
(* One ingestion run (pipeline.py:110-308): start_change_event, one        *)
(* merge_upsert per job, finish_change_event, create_state_image.  A job   *)
(* is a staged frame with its target table and protected columns.          *)
(***************************************************************************)
\* the store as one value
Store == [tbl |-> tbl, changeEvents |-> changeEvents, rowChanges |-> rowChanges,
          stateImages |-> stateImages, head |-> head]

\* staging of a raw frame (extract.py:73-74, pipeline.py:148, 169):
\* source_row_num is the 0-based position + 2, row_hash the fingerprint
stage(raw) ==
    [i \in 1..Len(raw) |->
        [pk |-> raw[i].pk, order_date |-> raw[i].order_date, region |-> raw[i].region,
         source_row_num |-> i + 1, row_hash |-> compute_row_hash(raw[i], hash_cols)]]

AddStats(a, b) ==
    [inserted |-> a.inserted + b.inserted, updated |-> a.updated + b.updated,
     unchanged |-> a.unchanged + b.unchanged, conflicted |-> a.conflicted + b.conflicted,
     rejected |-> a.rejected + b.rejected]

\* the merges of a run, in order (pipeline.py:184-211); acc carries the
\* store and the result of each merge_upsert call
merged(acc, j, m) ==
    [S |-> [acc.S EXCEPT !.tbl[j.table] = m.T, !.rowChanges = m.ledger],
     merges |-> Append(acc.merges,
                   [table |-> j.table, df |-> j.df, protected_cols |-> j.protected_cols,
                    before |-> acc.S.tbl[j.table], after |-> m.T,
                    ledger_before |-> acc.S.rowChanges, ledger_after |-> m.ledger,
                    stats |-> m.stats, classes |-> m.classes, conflicts |-> m.conflicts,
                    hash_backfilled_count |-> m.hash_backfilled_count]),
     total |-> AddStats(acc.total, m.stats)]

merge_job(acc, j, eid, dry_run) ==
    merged(acc, j, merge_upsert(acc.S.tbl[j.table], acc.S.rowChanges, eid, j.table,
                                j.df, j.protected_cols, dry_run))

RECURSIVE merge_jobs(_, _, _, _)
merge_jobs(acc, jobs, eid, dry_run) ==
    IF jobs = <<>> THEN acc
    ELSE merge_jobs(merge_job(acc, Head(jobs), eid, dry_run), Tail(jobs), eid, dry_run)

\* the end of a run (pipeline.py:213-279): finish_change_event with the
\* summed counts, then create_state_image unless nothing changed or dry run
finish_run(acc, eid, dry_run) ==
    LET t == acc.total
        no_changes == t.inserted = 0 /\ t.updated = 0 /\ t.conflicted = 0 /\ t.rejected = 0
        status == IF dry_run THEN "DRY_RUN"
                  ELSE IF no_changes \/ t.conflicted = 0 THEN "SUCCESS" ELSE "CONFLICTS"
        S1 == [acc.S EXCEPT !.changeEvents = finish_change_event(@, eid, status, t)]
    IN  [S |-> IF no_changes \/ dry_run THEN S1
               ELSE create_state_image(S1, eid, "pipeline success").S,
         change_event_id |-> eid, merges |-> acc.merges,
         status |-> IF no_changes THEN "NO_CHANGES"
                    ELSE IF dry_run THEN "DRY_RUN" ELSE "SUCCESS"]

run_jobs(S, jobs, eid, dry_run) ==
    finish_run(merge_jobs([S |-> [S EXCEPT !.changeEvents =
                                     start_change_event(@, "file_upload", dry_run)],
                           merges |-> <<>>, total |-> ZeroStats],
                          jobs, eid, dry_run),
               eid, dry_run)

ingest(S, jobs, dry_run) == run_jobs(S, jobs, Len(S.changeEvents) + 1, dry_run)

(***************************************************************************)
(* Inputs                                                                  *)
(***************************************************************************)
\* key cells that hold no key: missing, empty, whitespace, the text "nan"
BadKeys == {Null, "", " ", "nan"}

\* raw incoming rows: a well-formed key with any business values, or a
\* cell that holds no key
RawRows ==
    [pk : Pks, order_date : DateVals, region : RegionVals]
    \cup [pk : BadKeys, order_date : {"d1"}, region : {"r1"}]

SeqsUpTo(S, n) == UNION {[1..k -> S] : k \in 1..n}

Frames == {stage(raw) : raw \in SeqsUpTo(RawRows, MaxRows)}

ProtectedChoices == {<<>>, <<"order_date">>, <<"region">>, <<"source_row_num">>}

\* a fingerprint computed over another column list than hash_cols (an
\* earlier version of pipeline.py:147): it equals no fingerprint of a frame
StaleHash == "d1|r1|p1|"

\* rows a table may hold before the first modelled run: loaded by an earlier
\* run, without a fingerprint, with the one of their values, or with a stale one
StoredRows(k) ==
    {[pk |-> k, order_date |-> d, region |-> r, source_row_num |-> 2,
      row_hash |-> h, last_change_event_id |-> NoId] :
        <<d, r, h>> \in {<<d, r, h>> \in DateVals \X RegionVals \X
                            {Null, StaleHash, "d1|r1|", "d2|r1|", "d1||", "d2||"} :
                         h \in {Null, StaleHash,
                                compute_row_hash([order_date |-> d, region |-> r],
                                                 hash_cols)}}}

TableStates ==
    UNION {{f \in [D -> UNION {StoredRows(k) : k \in D}] : \A k \in D : f[k].pk = k}
           : D \in SUBSET Pks}

(***************************************************************************)
(* Actions.  hist is the list of the calls made so far, each with its      *)
(* arguments, its result and the store before and after it.                *)
(***************************************************************************)
SetStore(S) ==
    /\ tbl' = S.tbl
    /\ changeEvents' = S.changeEvents
    /\ rowChanges' = S.rowChanges
    /\ stateImages' = S.stateImages
    /\ head' = S.head

\* merge_upsert inside a run of its own, on the frame, table and protected
\* columns held in args
MergeRun(dry_run) ==
    /\ Len(hist) < MaxCalls
    /\ \E r \in {ingest(Store, <<args>>, dry_run)} :
           /\ SetStore(r.S)
           /\ hist' = Append(hist, [op |-> "merge", dry_run |-> dry_run,
                                    change_event_id |-> r.change_event_id,
                                    status |-> r.status, m |-> r.merges[1],
                                    pre |-> Store, post |-> r.S])
    /\ UNCHANGED <<args, running>>

RollbackChangeEvent(e) ==
    /\ Len(hist) < MaxCalls
    /\ e \in DOMAIN changeEvents
    /\ \E r \in {rollback_change_event(Store, e)} :
           /\ SetStore(r.S)
           /\ hist' = Append(hist, [op |-> "rollback", target |-> e,
                                    change_event_id |-> r.change_event_id,
                                    status |-> r.status,
                                    pre |-> Store, post |-> r.S])
    /\ UNCHANGED <<args, running>>

EmptyTable == [k \in {} |-> NoRow]

InitMerge ==
    /\ args \in [table : Tables, df : Frames, protected_cols : ProtectedChoices]
    /\ running = NoneRunning
    /\ \E T \in TableStates : tbl = [t \in Tables |-> IF t = args.table THEN T ELSE EmptyTable]
    /\ changeEvents = <<>>
    /\ rowChanges = <<>>
    /\ stateImages = <<>>
    /\ head = NoId
    /\ hist = <<>>

NextMerge ==
    \/ \E d \in BOOLEAN : MergeRun(d)
    \/ \E e \in 1..MaxCalls : RollbackChangeEvent(e)

SpecMerge == InitMerge /\ [][NextMerge]_vars


(***************************************************************************)
(* run_import (pipeline.py:74-308) and the operations the application      *)
(* offers on the history (app.py:343-400).  fact_finance_monthly, rebuilt  *)
(* and exported by the run, is outside the model.                          *)
(***************************************************************************)
\* bad of _clean_pk_series (pipeline.py:67-69): NaN, blank after strip, or
\* "nan" / "none" in any case; pd.to_numeric(errors="coerce") makes the same
\* cells NaN for order_id (pipeline.py:135)
nan_like(pk) == pk \in {"nan", "none"}
clean_pk_bad(pk) == pk = Null \/ Strip(pk) = "" \/ nan_like(pk)

\* rows whose key does not survive the cleaning of the staging step are
\* dropped before the merge (pipeline.py:135, 143, 152-153)
stage_file(raw) == SelectSeq(stage(raw), LAMBDA r : ~clean_pk_bad(r.pk))

sales_protected == <<"order_date">>
budget_protected == <<>>

run_import(S, sales_raw, budget_raw, dry_run) ==
    ingest(S,
           <<[table |-> Sales, df |-> stage_file(sales_raw), protected_cols |-> sales_protected],
             [table |-> Budget, df |-> stage_file(budget_raw),
              protected_cols |-> budget_protected]>>,
           dry_run)

RawRow(k, d, r) == [pk |-> k, order_date |-> d, region |-> r]

\* the file pairs of the runs: sales only, budget only, and both
InputFiles ==
    {<<<<RawRow("k1", "d1", "r1")>>, <<>>>>,
     <<<<RawRow("k1", "d1", Null)>>, <<>>>>,
     <<<<RawRow("k1", "d2", "r1")>>, <<>>>>,
     <<<<>>, <<RawRow("k1", "d1", "r1")>>>>,
     <<<<>>, <<RawRow("k1", "d2", "r1")>>>>,
     <<<<RawRow(Null, "d1", "r1"), RawRow("k1", "d1", "")>>, <<RawRow("k1", "d1", "r1")>>>>}

RunImport(files, dry_run) ==
    /\ Len(hist) < MaxOps
    /\ \E r \in {run_import(Store, files[1], files[2], dry_run)} :
           /\ SetStore(r.S)
           /\ hist' = Append(hist, [op |-> "import", dry_run |-> dry_run,
                                    change_event_id |-> r.change_event_id,
                                    status |-> r.status, merges |-> r.merges,
                                    pre |-> Store, post |-> r.S])
    /\ UNCHANGED <<args, running>>

\* "Create state image for this event (set HEAD)" (app.py:343-352)
CreateStateImage(e) ==
    /\ Len(hist) < MaxOps
    /\ e \in DOMAIN changeEvents
    /\ \E r \in {create_state_image(Store, e, "manual state image creation")} :
           /\ SetStore(r.S)
           /\ hist' = Append(hist, [op |-> "image", target |-> e, ret |-> r.ret,
                                    pre |-> Store, post |-> r.S])
    /\ UNCHANGED <<args, running>>

\* "Rollback this change_event_id (single event)" (app.py:358-367)
RollbackEvent(e) ==
    /\ Len(hist) < MaxOps
    /\ e \in DOMAIN changeEvents
    /\ \E r \in {rollback_change_event(Store, e)} :
           /\ SetStore(r.S)
           /\ hist' = Append(hist, [op |-> "rollback", target |-> e,
                                    change_event_id |-> r.change_event_id,
                                    status |-> r.status,
                                    pre |-> Store, post |-> r.S])
    /\ UNCHANGED <<args, running>>

\* "Rollback to selected point in time" (app.py:383-399)
RollbackToPointInTime(e) ==
    /\ Len(hist) < MaxOps
    /\ e \in DOMAIN changeEvents
    /\ \E r \in {rollback_to_point_in_time(Store, e)} :
           /\ SetStore(r.S)
           /\ hist' = Append(hist, [op |-> "pit", target |-> e, status |-> r.status,
                                    rolled_back_count |-> r.rolled_back_count,
                                    rollback_change_event_ids |-> r.rollback_change_event_ids,
                                    calls |-> r.calls, chain |-> r.chain,
                                    pre |-> Store, post |-> r.S])
    /\ UNCHANGED <<args, running>>

NoArgs == [table |-> Sales, df |-> <<>>, protected_cols |-> <<>>]

InitState ==
    /\ args = NoArgs
    /\ running = NoneRunning
    /\ tbl = [t \in Tables |-> EmptyTable]
    /\ changeEvents = <<>>
    /\ rowChanges = <<>>
    /\ stateImages = <<>>
    /\ head = NoId
    /\ hist = <<>>

\* event ids that can exist within MaxOps calls
EventIds == 1..(2 * MaxOps)

NextState ==
    \/ \E f \in InputFiles, d \in BOOLEAN : RunImport(f, d)
    \/ \E e \in EventIds : CreateStateImage(e)
    \/ \E e \in EventIds : RollbackEvent(e)
    \/ \E e \in EventIds : RollbackToPointInTime(e)

SpecState == InitState /\ [][NextState]_vars

(***************************************************************************)
(* Point-in-time rollback over an arbitrary image table: any parent links  *)
(* (cycles and several roots included) and any HEAD, as a damaged store    *)
(* can hold them.  Event e has image e; the last event has no image.       *)
(***************************************************************************)
ImageTables ==
    UNION {{[s \in 1..n |-> [change_event_id |-> s, parent_state_image_id |-> par[s],
                             notes |-> "pipeline success"]] : par \in [1..n -> 0..n]}
           : n \in 1..MaxImages}

LoadedRow == [pk |-> "k1", order_date |-> "d1", region |-> "r1", source_row_num |-> 2,
              row_hash |-> "d1|r1|"]

InitCorrupt ==
    /\ args = NoArgs
    /\ running = NoneRunning
    /\ stateImages \in ImageTables
    /\ head \in 0..Len(stateImages)
    /\ changeEvents =
         [e \in 1..(Len(stateImages) + 1) |->
            [status |-> "SUCCESS", source_name |-> "file_upload", dry_run |-> FALSE,
             rollback_of |-> NoId, inserted_count |-> IF e = 1 THEN 1 ELSE 0,
             updated_count |-> 0, unchanged_count |-> 0, conflicted_count |-> 0,
             rejected_count |-> 0]]
    /\ tbl = [t \in Tables |-> IF t = Sales THEN upsert(EmptyTable, LoadedRow, 1)
                               ELSE EmptyTable]
    /\ rowChanges = <<RowChange(1, Sales, "k1", "INSERT", business_cols, NoRow, LoadedRow,
                                TRUE, FALSE)>>
    /\ hist = <<>>

WalkFrom(e) ==
    /\ Len(hist) < MaxWalks
    /\ e \in DOMAIN changeEvents
    /\ \E r \in {rollback_to_point_in_time(Store, e)} :
           /\ SetStore(r.S)
           /\ hist' = Append(hist, [op |-> "pit", target |-> e, status |-> r.status,
                                    rolled_back_count |-> r.rolled_back_count,
                                    rollback_change_event_ids |-> r.rollback_change_event_ids,
                                    calls |-> r.calls, chain |-> r.chain,
                                    pre |-> Store, post |-> r.S])
    /\ UNCHANGED <<args, running>>

NextCorrupt == \E e \in 1..(MaxImages + MaxWalks + 1) : WalkFrom(e)

SpecCorrupt == InitCorrupt /\ [][NextCorrupt]_vars

(***************************************************************************)
(* create_state_image transaction by transaction (state.py:277-323): the   *)
(* lookup, the notes backfill, the read of HEAD, the insert, the second     *)
(* lookup and set_head each commit on their own, so calls of several        *)
(* processes interleave between them and a process can die between them.    *)
(* etl_state_images.change_event_id is unique (one image per event), so an  *)
(* insert for an event that has an image raises IntegrityError, which the   *)
(* call swallows.                                                           *)
(***************************************************************************)
\* the uuid4 of state.py:300 when its insert did not persist it
UnsavedId(p) == 0 - p

\* the unique constraint on etl_state_images.change_event_id (the schema
\* file is not part of the sources): an image for the event is there
change_event_id_taken(images, eid) == \E s \in DOMAIN images : images[s].change_event_id = eid

\* variant: the insert goes through although the event has an image
insert_state_image_unconstrained(images, eid, parent, notes) ==
    Append(images, [change_event_id |-> eid, parent_state_image_id |-> parent,
                    notes |-> notes])

\* INSERT INTO etl_state_images (state.py:304-318)
insert_state_image(images, eid, parent, notes) ==
    IF change_event_id_taken(images, eid) THEN images
    ELSE Append(images, [change_event_id |-> eid, parent_state_image_id |-> parent,
                         notes |-> notes])

\* variant: HEAD is set to the generated id without looking the image up
created_image_unchecked(images, eid, sid) == sid

\* created = get_state_image_by_change_event(...) (state.py:320): the id
\* the last set_head is called with, none when no image is found
created_image(images, eid, sid) == get_state_image_by_change_event(images, eid)

Begin(p, e, notes) ==
    /\ running[p].pc = "idle"
    /\ Len(hist) < MaxBegins
    /\ e \in DOMAIN changeEvents
    /\ running' = [running EXCEPT ![p] = [pc |-> "lookup", eid |-> e, notes |-> notes,
                                          parent |-> NoId, sid |-> NoId, to |-> NoId]]
    /\ hist' = Append(hist, [op |-> "begin", proc |-> p, target |-> e])
    /\ UNCHANGED <<store, args>>

\* existing = get_state_image_by_change_event(...) (state.py:281-282)
Lookup(p) ==
    /\ running[p].pc = "lookup"
    /\ \E existing \in {get_state_image_by_change_event(stateImages, running[p].eid)} :
           running' = [running EXCEPT ![p].pc = IF existing # NoId THEN "reuse"
                                                ELSE "read_head",
                                      ![p].to = existing]
    /\ UNCHANGED <<store, args, hist>>

\* the notes backfill of an existing image (state.py:283-295)
BackfillNotes(p) ==
    /\ running[p].pc = "reuse"
    /\ stateImages' =
           IF running[p].notes # "" /\ stateImages[running[p].to].notes = ""
           THEN [stateImages EXCEPT ![running[p].to].notes = running[p].notes]
           ELSE stateImages
    /\ running' = [running EXCEPT ![p].pc = "set_head"]
    /\ UNCHANGED <<tbl, changeEvents, rowChanges, head, args, hist>>

\* head = get_current_state(engine) (state.py:301-302)
ReadHead(p) ==
    /\ running[p].pc = "read_head"
    /\ running' = [running EXCEPT ![p].pc = "insert", ![p].parent = head]
    /\ UNCHANGED <<store, args, hist>>

\* the insert transaction (state.py:304-318)
Insert(p) ==
    /\ running[p].pc = "insert"
    /\ stateImages' = insert_state_image(stateImages, running[p].eid, running[p].parent,
                                         running[p].notes)
    /\ running' = [running EXCEPT ![p].pc = "created",
                                  ![p].sid = IF stateImages' # stateImages
                                             THEN Len(stateImages')
                                             ELSE UnsavedId(p)]
    /\ UNCHANGED <<tbl, changeEvents, rowChanges, head, args, hist>>

\* created = get_state_image_by_change_event(...); if created: ... (state.py:320-321)
LookupCreated(p) ==
    /\ running[p].pc = "created"
    /\ \E created \in {created_image(stateImages, running[p].eid, running[p].sid)} :
           running' = [running EXCEPT ![p].pc = IF created # NoId THEN "set_head"
                                                ELSE "return",
                                      ![p].to = created]
    /\ UNCHANGED <<store, args, hist>>

\* set_head(engine, state_image_id=...) (state.py:297, 322)
SetHead(p) ==
    /\ running[p].pc = "set_head"
    /\ SetStore(set_head(Store, running[p].to))
    /\ running' = [running EXCEPT ![p].pc = "return"]
    /\ UNCHANGED <<args, hist>>

\* return existing / return created (state.py:298, 323)
Return(p) ==
    /\ running[p].pc = "return"
    /\ hist' = Append(hist, [op |-> "created", proc |-> p, target |-> running[p].eid,
                             ret |-> running[p].to, sid |-> running[p].sid])
    /\ running' = [running EXCEPT ![p] = Idle]
    /\ UNCHANGED <<store, args>>

\* the process dies between two transactions of its call
Crash(p) ==
    /\ running[p].pc \notin {"idle", "return"}
    /\ running' = [running EXCEPT ![p] = Idle]
    /\ UNCHANGED <<store, args, hist>>

FinishedEvent ==
    [status |-> "SUCCESS", source_name |-> "file_upload", dry_run |-> FALSE,
     rollback_of |-> NoId, inserted_count |-> 0, updated_count |-> 0,
     unchanged_count |-> 0, conflicted_count |-> 0, rejected_count |-> 0]

InitImage ==
    /\ args = NoArgs
    /\ running = NoneRunning
    /\ tbl = [t \in Tables |-> EmptyTable]
    /\ changeEvents = <<FinishedEvent, FinishedEvent>>
    /\ rowChanges = <<>>
    /\ stateImages = <<>>
    /\ head = NoId
    /\ hist = <<>>

NextImage ==
    \E p \in Procs :
        \/ \E e \in 1..MaxBegins, notes \in {"", "manual state image creation"} :
               Begin(p, e, notes)
        \/ Lookup(p)
        \/ BackfillNotes(p)
        \/ ReadHead(p)
        \/ Insert(p)
        \/ LookupCreated(p)
        \/ SetHead(p)
        \/ Return(p)
        \/ Crash(p)

SpecImage == InitImage /\ [][NextImage]_vars

(***************************************************************************)
(* run_import transaction by transaction (pipeline.py:110-308 with         *)
(* merge.py:130-329).  Every engine.begin() block commits on its own: the  *)
(* start of the change event, the bulk fetch, each fingerprint backfill,   *)
(* each conflict RowChange, the batch write, each applied RowChange, the   *)
(* finish of the change event and the transactions of create_state_image.  *)
(* Any of them can raise (store unavailable, write failure), and the       *)
(* process can stop between any two.  One run is in progress at a time.    *)
(***************************************************************************)
\* the two merges of a run (pipeline.py:184-211)
import_jobs(sales_raw, budget_raw) ==
    <<[table |-> Sales, df |-> stage_file(sales_raw), protected_cols |-> sales_protected],
      [table |-> Budget, df |-> stage_file(budget_raw), protected_cols |-> budget_protected]>>

\* df.loc[~bad_pk_mask] and int(bad_pk_mask.sum()) (merge.py:131-137)
good_rows(df) == SelectSeq(df, LAMBDA r : ~bad_pk(r.pk))
rejected_rows(df) == Len(df) - Len(good_rows(df))

\* _fetch_existing_bulk (merge.py:45-65): the stored rows of the frame's keys
fetch_existing_bulk(T, df) == [k \in {df[i].pk : i \in 1..Len(df)} \cap DOMAIN T |-> T[k]]

\* the locals of merge_upsert at its start (merge.py:103-104, 174-175)
EmptyAcc == [T |-> [k \in {} |-> NoRow], ledger |-> <<>>, writes |-> <<>>, stats |-> ZeroStats,
             classes |-> <<>>, conflicts |-> <<>>, backfilled |-> 0]

\* the locals of a run after start_change_event (pipeline.py:118-120); the
\* fields notes, parent, sid and to are those of its create_state_image call
RunLocals(eid, dry_run, jobs, pre) ==
    [pc |-> "merge", eid |-> eid, notes |-> "pipeline success", parent |-> NoId,
     sid |-> NoId, to |-> NoId, dry_run |-> dry_run, jobs |-> jobs, j |-> 1, df |-> <<>>,
     existing_map |-> [k \in {} |-> NoRow], acc |-> EmptyAcc, audited |-> 0, ledger0 |-> 0,
     total |-> ZeroStats, failed_at |-> "", pre |-> pre]

Job(p) == running[p].jobs[running[p].j]
\* the row the scan loop is at (merge.py:177)
NextRow(p) == running[p].df[Len(running[p].acc.classes) + 1]
NextExisting(p) ==
    IF NextRow(p).pk \in DOMAIN running[p].existing_map
    THEN running[p].existing_map[NextRow(p).pk] ELSE NoRow
NextClass(p) == classify(NextExisting(p), NextRow(p), Job(p).protected_cols)

\* variant: the audit loop is entered without the batch write
after_scan_audit_only(acc, df, dry_run) ==
    IF Len(acc.classes) < Len(df) THEN "scan"
    ELSE IF (~dry_run) /\ acc.writes # <<>> THEN "audit"
    ELSE "merged"

\* where merge_upsert goes after the scan loop (merge.py:304)
after_scan(acc, df, dry_run) ==
    IF Len(acc.classes) < Len(df) THEN "scan"
    ELSE IF (~dry_run) /\ acc.writes # <<>> THEN "write"
    ELSE "merged"

\* one applied RowChange of the audit loop (merge.py:309-322)
audit_write(ledger, a, eid, table) ==
    log_row_change(ledger, RowChange(eid, table, a.row.pk, a.op, a.changed_columns,
                                     a.db_before, a.row, TRUE, FALSE))

\* no_changes (pipeline.py:224)
no_changes(t) == t.inserted = 0 /\ t.updated = 0 /\ t.conflicted = 0 /\ t.rejected = 0

\* the status finish_change_event is called with (pipeline.py:230, 265)
finish_status(t, dry_run) ==
    IF dry_run THEN "DRY_RUN"
    ELSE IF no_changes(t) \/ t.conflicted = 0 THEN "SUCCESS" ELSE "CONFLICTS"

\* run_import up to the try block: start_change_event (pipeline.py:110-120)
StartRun(p, files, dry_run) ==
    /\ running = NoneRunning
    /\ Len(changeEvents) < MaxRuns
    /\ changeEvents' = start_change_event(changeEvents, "file_upload", dry_run)
    /\ running' = [running EXCEPT ![p] =
                      RunLocals(Len(changeEvents) + 1, dry_run,
                                import_jobs(files[1], files[2]), Store)]
    /\ UNCHANGED <<tbl, rowChanges, stateImages, head, args, hist>>

\* the start of merge_upsert: rejection of blank keys, early return on an
\* empty frame, bulk fetch (merge.py:125-149)
Fetch(p) ==
    /\ running[p].pc = "merge"
    /\ \E df \in {good_rows(Job(p).df)} :
           running' = [running EXCEPT
               ![p].pc = IF df = <<>> THEN "merged" ELSE "scan",
               ![p].df = df,
               ![p].existing_map = fetch_existing_bulk(tbl[Job(p).table], df),
               ![p].acc = [EmptyAcc EXCEPT !.stats.rejected = rejected_rows(Job(p).df)],
               ![p].audited = 0,
               ![p].ledger0 = Len(rowChanges)]
    /\ UNCHANGED <<store, args, hist>>

\* one iteration of the scan loop (merge.py:177-301), with the backfill or
\* the conflict RowChange it commits
ScanRow(p) ==
    /\ running[p].pc = "scan"
    /\ \E acc \in {scan_row([running[p].acc EXCEPT !.T = tbl[Job(p).table],
                                                   !.ledger = rowChanges],
                            running[p].existing_map, NextRow(p), running[p].eid,
                            Job(p).table, Job(p).protected_cols, running[p].dry_run)} :
           /\ tbl' = [tbl EXCEPT ![Job(p).table] = acc.T]
           /\ rowChanges' = acc.ledger
           /\ running' = [running EXCEPT
                  ![p].acc = [acc EXCEPT !.T = EmptyAcc.T, !.ledger = <<>>],
                  ![p].pc = after_scan(acc, running[p].df, running[p].dry_run)]
    /\ UNCHANGED <<changeEvents, stateImages, head, args, hist>>

\* the backfill UPDATE raises and the error is swallowed (merge.py:209-225)
BackfillFails(p) ==
    /\ running[p].pc = "scan"
    /\ NextClass(p) = "SAME"
    /\ backfill_wanted(NextExisting(p), NextRow(p), running[p].dry_run)
    /\ \E acc \in {[running[p].acc EXCEPT !.stats.unchanged = @ + 1,
                                          !.classes = Append(@, "UNCHANGED")]} :
           running' = [running EXCEPT
               ![p].acc = acc,
               ![p].pc = after_scan(acc, running[p].df, running[p].dry_run)]
    /\ UNCHANGED <<store, args, hist>>

\* the batch write of the staged rows, one transaction (merge.py:304-307)
BatchWrite(p) ==
    /\ running[p].pc = "write"
    /\ tbl' = [tbl EXCEPT ![Job(p).table] =
                  batch_write(@, running[p].acc.writes, running[p].eid)]
    /\ running' = [running EXCEPT ![p].pc = "audit"]
    /\ UNCHANGED <<changeEvents, rowChanges, stateImages, head, args, hist>>

\* one iteration of the audit loop (merge.py:309-322)
AuditWrite(p) ==
    /\ running[p].pc = "audit"
    /\ rowChanges' = audit_write(rowChanges, running[p].acc.writes[running[p].audited + 1],
                                 running[p].eid, Job(p).table)
    /\ running' = [running EXCEPT
           ![p].audited = @ + 1,
           ![p].pc = IF running[p].audited + 1 = Len(running[p].acc.writes)
                     THEN "merged" ELSE "audit"]
    /\ UNCHANGED <<tbl, changeEvents, stateImages, head, args, hist>>

\* the RowChanges the merge in progress has appended
AppendedSoFar(p) == SubSeq(rowChanges, running[p].ledger0 + 1, Len(rowChanges))

\* merge_upsert returns (merge.py:329); the run sums the counts
\* (pipeline.py:213-217) after the second merge
MergeReturns(p) ==
    /\ running[p].pc = "merged"
    /\ hist' = Append(hist, [op |-> "merged", change_event_id |-> running[p].eid,
                             table |-> Job(p).table, dry_run |-> running[p].dry_run,
                             df |-> Job(p).df, stats |-> running[p].acc.stats,
                             writes |-> running[p].acc.writes,
                             appended |-> AppendedSoFar(p)])
    /\ running' = [running EXCEPT
           ![p].total = AddStats(@, running[p].acc.stats),
           ![p].j = @ + 1,
           ![p].pc = IF running[p].j = Len(running[p].jobs) THEN "finish" ELSE "merge"]
    /\ UNCHANGED <<store, args>>

\* a transaction of merge_upsert raises and the merge is left: the bulk
\* fetch (merge.py:143-149), the conflict RowChange (merge.py:244-256), the
\* batch write (merge.py:305-307) or an applied RowChange (merge.py:310-322)
MergeRaises(p) ==
    /\ \/ running[p].pc = "merge" /\ good_rows(Job(p).df) # <<>>
       \/ running[p].pc = "scan" /\ NextClass(p) = "CONFLICT" /\ ~running[p].dry_run
       \/ running[p].pc \in {"write", "audit"}
    /\ hist' = Append(hist, [op |-> "merge_raised", at |-> running[p].pc,
                             change_event_id |-> running[p].eid, table |-> Job(p).table,
                             appended |-> IF running[p].pc = "merge" THEN <<>>
                                          ELSE AppendedSoFar(p)])
    /\ running' = [running EXCEPT ![p].pc = "handler", ![p].failed_at = running[p].pc]
    /\ UNCHANGED <<store, args>>

\* finish_change_event with the summed counts (pipeline.py:224-272); the
\* run then returns, or goes on to create_state_image (pipeline.py:274-279)
Finish(p) ==
    /\ running[p].pc = "finish"
    /\ changeEvents' = finish_change_event(changeEvents, running[p].eid,
                                           finish_status(running[p].total, running[p].dry_run),
                                           running[p].total)
    /\ running' = [running EXCEPT
           ![p].pc = IF no_changes(running[p].total) \/ running[p].dry_run
                     THEN "return" ELSE "lookup"]
    /\ UNCHANGED <<tbl, rowChanges, stateImages, head, args, hist>>

\* the rebuild of the fact table, the export or finish_change_event raises
\* (pipeline.py:227-272)
FinishRaises(p) ==
    /\ running[p].pc = "finish"
    /\ running' = [running EXCEPT ![p].pc = "handler", ![p].failed_at = "finish"]
    /\ UNCHANGED <<store, args, hist>>

ImageSteps == {"lookup", "read_head", "insert", "created", "set_head"}

\* a transaction of create_state_image raises and run_import swallows the
\* error (pipeline.py:275-279)
ImageRaises(p) ==
    /\ running[p].pc \in ImageSteps
    /\ running' = [running EXCEPT ![p].pc = "return"]
    /\ UNCHANGED <<store, args, hist>>

\* the status of the returned dict (pipeline.py:239, 283)
returned_status(t, dry_run) ==
    IF no_changes(t) THEN "NO_CHANGES" ELSE IF dry_run THEN "DRY_RUN" ELSE "SUCCESS"

\* return {...} (pipeline.py:238-250, 282-294)
RunReturns(p) ==
    /\ running[p].pc = "return"
    /\ hist' = Append(hist, [op |-> "ran", outcome |-> "returned",
                             change_event_id |-> running[p].eid,
                             jobs |-> running[p].jobs, dry_run |-> running[p].dry_run,
                             status |-> returned_status(running[p].total, running[p].dry_run),
                             failed_at |-> "", handler |-> "", pre |-> running[p].pre,
                             post |-> Store])
    /\ running' = [running EXCEPT ![p] = Idle]
    /\ UNCHANGED <<store, args>>

\* except Exception: finish_change_event(status="FAILED", ...); raise
\* (pipeline.py:296-308)
Handler(p) ==
    /\ running[p].pc = "handler"
    /\ \E events \in {finish_change_event(changeEvents, running[p].eid, "FAILED", ZeroStats)} :
           /\ changeEvents' = events
           /\ hist' = Append(hist, [op |-> "ran", outcome |-> "raised",
                                    change_event_id |-> running[p].eid,
                                    jobs |-> running[p].jobs,
                                    dry_run |-> running[p].dry_run, status |-> "FAILED",
                                    failed_at |-> running[p].failed_at,
                                    handler |-> "committed", pre |-> running[p].pre,
                                    post |-> [Store EXCEPT !.changeEvents = events]])
    /\ running' = [running EXCEPT ![p] = Idle]
    /\ UNCHANGED <<tbl, rowChanges, stateImages, head, args>>

\* the finish_change_event of the handler raises itself (pipeline.py:297-307):
\* its error leaves run_import in place of the first one
HandlerRaises(p) ==
    /\ running[p].pc = "handler"
    /\ hist' = Append(hist, [op |-> "ran", outcome |-> "raised",
                             change_event_id |-> running[p].eid,
                             jobs |-> running[p].jobs, dry_run |-> running[p].dry_run, status |-> "FAILED",
                             failed_at |-> running[p].failed_at,
                             handler |-> "raised", pre |-> running[p].pre, post |-> Store])
    /\ running' = [running EXCEPT ![p] = Idle]
    /\ UNCHANGED <<store, args>>

\* the process stops between two transactions of a run
CrashRun(p) ==
    /\ running[p].pc # "idle"
    /\ hist' = Append(hist, [op |-> "crashed", at |-> running[p].pc,
                             change_event_id |-> running[p].eid,
                             pre |-> running[p].pre, post |-> Store])
    /\ running' = [running EXCEPT ![p] = Idle]
    /\ UNCHANGED <<store, args>>

(***************************************************************************)
(* bootstrap_fact_from_gold_csv (bootstrap_gold.py:12-144).  The rows of   *)
(* fact_finance_monthly are outside the model; the change event and the    *)
(* RowChanges of the load are in it.                                       *)
(***************************************************************************)
Fact == "fact_finance_monthly"
\* pk of a gold row (bootstrap_gold.py:100)
GoldKeys == <<"m1|dep|cat|actual|src", "m2|dep|cat|actual|src", "m3|dep|cat|actual|src">>
gold_cols == <<"month_start", "department", "category", "scenario", "amount", "source">>

\* start_change_event of the load (bootstrap_gold.py:51-63); rows is the
\* number of rows of the CSV left after dropna
BootStart(p, rows) ==
    /\ running = NoneRunning
    /\ Len(changeEvents) < MaxRuns
    /\ changeEvents' = start_change_event(changeEvents, "bootstrap_gold", FALSE)
    /\ running' = [running EXCEPT ![p] =
                      [pc |-> "boot", eid |-> Len(changeEvents) + 1, rows |-> rows,
                       done |-> 0, inserted |-> 0, rejected |-> 0, pre |-> Store]]
    /\ UNCHANGED <<tbl, rowChanges, stateImages, head, args, hist>>

\* one row of the loop: the INSERT into the fact table, then its RowChange
\* (bootstrap_gold.py:69-121)
BootRow(p) ==
    /\ running[p].pc = "boot"
    /\ running[p].done < running[p].rows
    /\ rowChanges' = log_row_change(rowChanges,
                         RowChange(running[p].eid, Fact, GoldKeys[running[p].done + 1],
                                   "INSERT", gold_cols, NoRow,
                                   [pk |-> GoldKeys[running[p].done + 1]], TRUE, FALSE))
    /\ running' = [running EXCEPT ![p].done = @ + 1, ![p].inserted = @ + 1]
    /\ UNCHANGED <<tbl, changeEvents, stateImages, head, args, hist>>

\* the INSERT or the log_row_change of a row raises (bootstrap_gold.py:122-123)
BootRowRejected(p) ==
    /\ running[p].pc = "boot"
    /\ running[p].done < running[p].rows
    /\ running' = [running EXCEPT ![p].done = @ + 1, ![p].rejected = @ + 1]
    /\ UNCHANGED <<store, args, hist>>

\* finish_change_event of the load (bootstrap_gold.py:125-144)
BootFinish(p) ==
    /\ running[p].pc = "boot"
    /\ running[p].done = running[p].rows
    /\ \E events \in {finish_change_event(changeEvents, running[p].eid, "SUCCESS",
                          [ZeroStats EXCEPT !.inserted = running[p].inserted,
                                            !.rejected = running[p].rejected])} :
           /\ changeEvents' = events
           /\ hist' = Append(hist, [op |-> "booted", change_event_id |-> running[p].eid,
                                    inserted |-> running[p].inserted,
                                    rejected |-> running[p].rejected,
                                    pre |-> running[p].pre,
                                    post |-> [Store EXCEPT !.changeEvents = events]])
    /\ running' = [running EXCEPT ![p] = Idle]
    /\ UNCHANGED <<tbl, rowChanges, stateImages, head, args>>

\* the sales table before the first modelled run: empty, or rows loaded
\* before the fingerprint column was filled
LegacyTables ==
    {T \in TableStates :
        \A k \in DOMAIN T : T[k].row_hash = Null /\ T[k].order_date = "d1" /\ T[k].region = "r1"}

InitRun ==
    /\ args = NoArgs
    /\ running = NoneRunning
    /\ \E T \in LegacyTables : tbl = [t \in Tables |-> IF t = Sales THEN T ELSE EmptyTable]
    /\ changeEvents = <<>>
    /\ rowChanges = <<>>
    /\ stateImages = <<>>
    /\ head = NoId
    /\ hist = <<>>

NextRun ==
    \E p \in Procs :
        \/ \E f \in InputFiles, d \in BOOLEAN : StartRun(p, f, d)
        \/ Fetch(p)
        \/ ScanRow(p)
        \/ BackfillFails(p)
        \/ BatchWrite(p)
        \/ AuditWrite(p)
        \/ MergeReturns(p)
        \/ MergeRaises(p)
        \/ Finish(p)
        \/ FinishRaises(p)
        \/ Lookup(p)
        \/ ReadHead(p)
        \/ Insert(p)
        \/ LookupCreated(p)
        \/ SetHead(p)
        \/ ImageRaises(p)
        \/ RunReturns(p)
        \/ Handler(p)
        \/ HandlerRaises(p)
        \/ CrashRun(p)
        \/ \E rows \in 0..MaxGold : BootStart(p, rows)
        \/ BootRow(p)
        \/ BootRowRejected(p)
        \/ BootFinish(p)

SpecRun == InitRun /\ [][NextRun]_vars

(***************************************************************************)
(* _compute_row_hash on its own (pipeline.py:48-61): it takes a frame and  *)
(* a list of columns and returns one fingerprint per row, in row order.    *)
(* hash_pandas_object(index=False) hashes each row from its own values    *)
(* and combines the columns in the order of the list.                      *)
(***************************************************************************)
compute_row_hashes(df, cols) == [i \in 1..Len(df) |-> compute_row_hash(df[i], cols)]

Reverse(s) == [i \in 1..Len(s) |-> s[Len(s) + 1 - i]]

\* column lists over the modelled columns: each set in every order
ColumnLists == {<<"order_date">>, <<"region">>, <<"order_date", "region">>,
                <<"region", "order_date">>}

ComputeRowHash(df, cols) ==
    /\ Len(hist) < MaxHashCalls
    /\ hist' = Append(hist, [op |-> "hash", df |-> df, cols |-> cols,
                             ret |-> compute_row_hashes(df, cols)])
    /\ UNCHANGED <<store, args, running>>

InitHash ==
    /\ args \in [table : {Sales}, df : SeqsUpTo(RawRows, MaxRows), protected_cols : {<<>>}]
    /\ running = NoneRunning
    /\ tbl = [t \in Tables |-> EmptyTable]
    /\ changeEvents = <<>>
    /\ rowChanges = <<>>
    /\ stateImages = <<>>
    /\ head = NoId
    /\ hist = <<>>

\* the frame as read, or with its rows in the opposite order
NextHash == \E df \in {args.df, Reverse(args.df)}, cols \in ColumnLists : ComputeRowHash(df, cols)

SpecHash == InitHash /\ [][NextHash]_vars

(***************************************************************************)
(* Properties of merge_upsert                                              *)
(***************************************************************************)
Calls == 1..Len(hist)
IsMerge(i) == i \in Calls /\ hist[i].op = "merge"
IsWetMerge(i) == IsMerge(i) /\ ~hist[i].dry_run
Rows(i) == 1..Len(hist[i].m.df)
Row(i, n) == hist[i].m.df[n]
Class(i, n) == hist[i].m.classes[n]
CountClass(i, c) == Cardinality({n \in Rows(i) : Class(i, n) = c})
DistinctKeys(i) ==
    \A a, b \in Rows(i) : (a # b /\ ~bad_pk(Row(i, a).pk)) => Row(i, a).pk # Row(i, b).pk
KeyOnce(i, n) == \A o \in Rows(i) : o # n => Row(i, o).pk # Row(i, n).pk
Stored(i, n) == hist[i].m.before[Row(i, n).pk]
Exists(i, n) == ~bad_pk(Row(i, n).pk) /\ Row(i, n).pk \in DOMAIN hist[i].m.before
\* the ledger entries a merge appended
Appended(i) ==
    {hist[i].m.ledger_after[j] :
        j \in (Len(hist[i].m.ledger_before) + 1)..Len(hist[i].m.ledger_after)}
InConflictSet(i, n) == \E c \in Range(hist[i].m.conflicts) : c.patch_after = Row(i, n)
Business(T) == [k \in DOMAIN T |-> [order_date |-> T[k].order_date, region |-> T[k].region]]

\* C1 as claimed: a non-dry-run merge repeated with identical arguments and
\* nothing in between reports inserted = updated = conflicted = 0, every
\* row that is not rejected being unchanged
C1_Original ==
    \A i \in Calls :
        (IsWetMerge(i) /\ IsWetMerge(i + 1)) =>
            /\ hist[i + 1].m.stats.inserted = 0
            /\ hist[i + 1].m.stats.updated = 0
            /\ hist[i + 1].m.stats.conflicted = 0
            /\ \A n \in Rows(i + 1) : Class(i + 1, n) \in {"UNCHANGED", "REJECTED"}

\* C1 amended: when the well-formed primary keys of the frame are pairwise
\* distinct, the repeated merge reports inserted = 0 and updated = 0, reports
\* the same conflicts as the first run (a conflicting row is never written,
\* so it conflicts again), and counts every other accepted row as unchanged
C1_Idempotent ==
    \A i \in Calls :
        (IsWetMerge(i) /\ IsWetMerge(i + 1) /\ DistinctKeys(i)) =>
            /\ hist[i + 1].m.stats.inserted = 0
            /\ hist[i + 1].m.stats.updated = 0
            /\ hist[i + 1].m.stats.conflicted = hist[i].m.stats.conflicted
            /\ \A n \in Rows(i + 1) :
                   /\ Class(i + 1, n) \in {"UNCHANGED", "REJECTED", "CONFLICT"}
                   /\ (Class(i + 1, n) = "CONFLICT") <=> (Class(i, n) = "CONFLICT")
            /\ hist[i + 1].m.stats.unchanged =
                   Len(hist[i].m.df) - hist[i].m.stats.rejected - hist[i].m.stats.conflicted

C1_Witness ==
    \E i \in Calls :
        /\ IsWetMerge(i) /\ IsWetMerge(i + 1) /\ DistinctKeys(i)
        /\ hist[i].m.stats.inserted + hist[i].m.stats.updated > 0
        /\ hist[i + 1].m.stats.unchanged > 0

\* C2 as claimed: an incoming row whose key exists and whose value differs
\* from the stored one in a column of protected_cols is classified CONFLICT,
\* counted, returned in the conflict set, and the stored row is the same
\* before and after the merge
C2_Original ==
    \A i \in Calls : IsMerge(i) =>
        \A n \in Rows(i) :
            (Exists(i, n) /\ \E c \in Range(hist[i].m.protected_cols) :
                                 Stored(i, n)[c] # Row(i, n)[c]) =>
                /\ Class(i, n) = "CONFLICT"
                /\ InConflictSet(i, n)
                /\ hist[i].m.stats.conflicted = CountClass(i, "CONFLICT")
                /\ hist[i].m.after[Row(i, n).pk] = Stored(i, n)

ProtectedBusinessDiff(i, n) ==
    \E c \in Range(hist[i].m.protected_cols) :
        c \in Range(business_cols) /\ Stored(i, n)[c] # Row(i, n)[c]

\* C2 amended: an incoming row whose key exists, whose fingerprint is not
\* equal to a stored fingerprint, and whose value differs from the stored one
\* in a protected business column is classified CONFLICT, counted and
\* returned in the conflict set; the merge stages no write for it, so the
\* stored row is the same before and after whenever no other row of the
\* frame carries the same key
C2_ConflictProtected ==
    \A i \in Calls : IsMerge(i) =>
        \A n \in Rows(i) :
            (Exists(i, n) /\ ProtectedBusinessDiff(i, n)
                /\ ~hash_match(Stored(i, n), Row(i, n))) =>
                /\ Class(i, n) = "CONFLICT"
                /\ InConflictSet(i, n)
                /\ hist[i].m.stats.conflicted = CountClass(i, "CONFLICT")
                /\ \A rc \in Appended(i) : rc.db_after = Row(i, n) => ~rc.applied
                /\ KeyOnce(i, n) => hist[i].m.after[Row(i, n).pk] = Stored(i, n)

C2_Witness ==
    \E i \in Calls : IsWetMerge(i) /\
        \E n \in Rows(i) :
            /\ Exists(i, n) /\ ProtectedBusinessDiff(i, n)
            /\ ~hash_match(Stored(i, n), Row(i, n))
            /\ KeyOnce(i, n)
            /\ Class(i, n) = "CONFLICT"
            /\ Len(hist[i].m.ledger_after) = Len(hist[i].m.ledger_before) + 1

\* C3: an incoming row that agrees with the stored row on every protected
\* column is never classified CONFLICT, is not in the returned conflict
\* set, and no RowChange with conflict = true is logged for it
C3_NoConflictUnprotected ==
    \A i \in Calls : IsMerge(i) =>
        \A n \in Rows(i) :
            (Exists(i, n) /\ \A c \in Range(hist[i].m.protected_cols) :
                                 Stored(i, n)[c] = Row(i, n)[c]) =>
                /\ Class(i, n) # "CONFLICT"
                /\ ~InConflictSet(i, n)
                /\ \A rc \in Appended(i) : rc.db_after = Row(i, n) => ~rc.conflict

C3_Witness ==
    \E i \in Calls : IsWetMerge(i) /\
        \E n \in Rows(i) :
            /\ Exists(i, n)
            /\ hist[i].m.protected_cols = <<"order_date">>
            /\ Stored(i, n).order_date = Row(i, n).order_date
            /\ Stored(i, n).region # Row(i, n).region
            /\ Class(i, n) = "UPDATE"

\* C4: a dry-run merge_upsert leaves the target table, stored fingerprint and
\* last_change_event_id included, and the RowChange ledger as they were
C4_DryRunWriteFree ==
    \A i \in Calls : (IsMerge(i) /\ hist[i].dry_run) =>
        /\ hist[i].m.after = hist[i].m.before
        /\ hist[i].m.ledger_after = hist[i].m.ledger_before
        /\ hist[i].post.tbl = hist[i].pre.tbl
        /\ hist[i].post.rowChanges = hist[i].pre.rowChanges

C4_Witness ==
    \E i \in Calls :
        /\ IsMerge(i) /\ hist[i].dry_run
        /\ CountClass(i, "CONFLICT") + CountClass(i, "INSERT") + CountClass(i, "UPDATE") > 0
        /\ \E n \in Rows(i) :
               /\ Exists(i, n) /\ Class(i, n) = "UNCHANGED"
               /\ Stored(i, n).row_hash = Null


(***************************************************************************)
(* Properties of rollback                                                  *)
(***************************************************************************)
IsRollback(i) == i \in Calls /\ hist[i].op = "rollback"
AppliedBy(i) == {rc \in Appended(i) : rc.applied}
\* call i is a successful non-dry-run merge with applied RowChanges, call
\* i + 1 the rollback of its event and call i + 2 the same merge again
RoundTrip(i) ==
    /\ IsWetMerge(i)
    /\ hist[i].post.changeEvents[hist[i].change_event_id].status = "SUCCESS"
    /\ AppliedBy(i) # {}
    /\ IsRollback(i + 1)
    /\ hist[i + 1].target = hist[i].change_event_id
    /\ IsWetMerge(i + 2)

\* C5 as claimed: rolling back the event of a successful merge and running
\* the merge again gives the table the merge gave the first time (primary
\* keys and business columns)
C5_RoundTrip ==
    \A i \in Calls :
        RoundTrip(i) => Business(hist[i + 2].m.after) = Business(hist[i].m.after)

\* the same where the rollback returned normally
C5_RoundTripReturned ==
    \A i \in Calls :
        (RoundTrip(i) /\ hist[i + 1].status = "SUCCESS") =>
            Business(hist[i + 2].m.after) = Business(hist[i].m.after)

C5_Witness ==
    \E i \in Calls :
        /\ RoundTrip(i) /\ hist[i + 1].status = "SUCCESS"
        /\ hist[i + 1].post.tbl # hist[i + 1].pre.tbl
        /\ \E rc \in AppliedBy(i) : rc.op = "UPDATE"


(***************************************************************************)
(* Properties of the state history                                         *)
(***************************************************************************)
IsPit(i) == i \in Calls /\ hist[i].op = "pit"
IsImage(i) == i \in Calls /\ hist[i].op = "image"
BusinessAll(T) == [t \in Tables |-> Business(T[t])]
\* call j is the ingestion or single rollback that created change event e
Created(j, e) ==
    /\ j \in Calls
    /\ hist[j].op \in {"import", "rollback"}
    /\ hist[j].change_event_id = e
ImagesOf(images, e) == {s \in DOMAIN images : images[s].change_event_id = e}

\* the images reachable from a set of images by parent links
RECURSIVE Closure(_, _)
Closure(images, set) ==
    LET more == set \cup {images[s].parent_state_image_id : s \in set \cap DOMAIN images}
        next == more \ {NoId}
    IN  IF next = set THEN set ELSE Closure(images, next)

\* C6 as claimed: in a history of ingestions and rollbacks, after
\* rollback_to_point_in_time(T) returns SUCCESS the target tables hold what
\* they held right after change event T was applied
C6_PointInTimeRestores ==
    \A i \in Calls :
        (IsPit(i) /\ hist[i].status = "SUCCESS" /\ \A j \in 1..i : ~IsImage(j)) =>
            \A j \in 1..i :
                Created(j, hist[i].target) =>
                    BusinessAll(hist[i].post.tbl) = BusinessAll(hist[j].post.tbl)

\* C7 as claimed: with a walked chain of length L > 1, rollback_change_event
\* is called once on the event of each of the L - 1 images after the target,
\* newest first, never on the target's event, and the call returns
\* rolled_back_count = L - 1 and the L - 1 new rollback event ids in order
C7_RollsBackEachOnce ==
    \A i \in Calls :
        (IsPit(i) /\ Len(hist[i].chain) > 1) =>
            LET L == Len(hist[i].chain)
                images == hist[i].pre.stateImages
            IN  /\ hist[i].calls = [k \in 1..(L - 1) |-> images[hist[i].chain[k]].change_event_id]
                /\ hist[i].target \notin Range(hist[i].calls)
                /\ hist[i].status = "SUCCESS"
                /\ hist[i].rolled_back_count = L - 1
                /\ hist[i].rollback_change_event_ids =
                       [k \in 1..(L - 1) |-> Len(hist[i].pre.changeEvents) + k]

\* the same for the calls in which no rollback_change_event raised
C7_RollsBackEachOnceReturned ==
    \A i \in Calls :
        (IsPit(i) /\ Len(hist[i].chain) > 1 /\ hist[i].status # "RAISED") =>
            LET L == Len(hist[i].chain)
                images == hist[i].pre.stateImages
            IN  /\ hist[i].calls = [k \in 1..(L - 1) |-> images[hist[i].chain[k]].change_event_id]
                /\ hist[i].target \notin Range(hist[i].calls)
                /\ hist[i].status = "SUCCESS"
                /\ hist[i].rolled_back_count = L - 1
                /\ hist[i].rollback_change_event_ids =
                       [k \in 1..(L - 1) |-> Len(hist[i].pre.changeEvents) + k]

\* C8: when the target is the change event of HEAD's image, the call returns
\* NO_OP with rolled_back_count = 0 and no rollback ids, and the change
\* events, the ledger, the images, HEAD and the tables are as before
C8_NoOpAtHead ==
    \A i \in Calls :
        (IsPit(i) /\ hist[i].pre.head \in DOMAIN hist[i].pre.stateImages
            /\ hist[i].pre.stateImages[hist[i].pre.head].change_event_id = hist[i].target) =>
            /\ hist[i].status = "NO_OP"
            /\ hist[i].rolled_back_count = 0
            /\ hist[i].rollback_change_event_ids = <<>>
            /\ hist[i].post = hist[i].pre

C8_Witness ==
    \E i \in Calls :
        /\ IsPit(i) /\ hist[i].status = "NO_OP"
        /\ Len(hist[i].pre.stateImages) > 1
        /\ hist[i].pre.rowChanges # <<>>

\* C9: when no HEAD is set, the target has no image, or the target's image
\* is not met on the parent chain from HEAD (the chain ends at a root, runs
\* into a cycle or into a missing image), the call fails before any
\* rollback_change_event call and the store is as before
C9_NoPartialUndo ==
    \A i \in Calls : IsPit(i) =>
        LET pre == hist[i].pre
            targets == ImagesOf(pre.stateImages, hist[i].target)
        IN  (\/ pre.head = NoId
             \/ targets = {}
             \/ targets \cap Closure(pre.stateImages, {pre.head}) = {}) =>
                /\ hist[i].status \notin {"SUCCESS", "NO_OP", "RAISED"}
                /\ hist[i].calls = <<>>
                /\ hist[i].post = pre

C9_Witness ==
    \E i \in Calls :
        /\ IsPit(i) /\ hist[i].status = "CYCLE"
        /\ hist[i].pre.rowChanges # <<>>
        /\ hist[i].pre.head # NoId

C9_WitnessUnreachable ==
    \E i \in Calls : IsPit(i) /\ hist[i].status = "UNREACHABLE"

\* C10: there is at most one state image per change event, and
\* create_state_image for an event that has an image returns that image,
\* with the id and parent it had, and adds no image
C10_OneImagePerEvent ==
    /\ \A a, b \in DOMAIN stateImages :
           stateImages[a].change_event_id = stateImages[b].change_event_id => a = b
    /\ \A i \in Calls : IsImage(i) =>
           \A s \in ImagesOf(hist[i].pre.stateImages, hist[i].target) :
               /\ hist[i].ret = s
               /\ Len(hist[i].post.stateImages) = Len(hist[i].pre.stateImages)
               /\ hist[i].post.stateImages[s].parent_state_image_id =
                      hist[i].pre.stateImages[s].parent_state_image_id
               /\ hist[i].post.stateImages[s].change_event_id = hist[i].target

C10_Witness ==
    \E i \in Calls :
        /\ IsImage(i)
        /\ ImagesOf(hist[i].pre.stateImages, hist[i].target) # {}
        /\ hist[i].pre.head # hist[i].ret
        /\ \E j \in Calls : IsRollback(j) /\ hist[j].status = "SUCCESS"


(***************************************************************************)
(* Properties of the image chain                                           *)
(***************************************************************************)
Parent(images, s) == images[s].parent_state_image_id
Roots(images) == {s \in DOMAIN images : Parent(images, s) = NoId}
\* a call that added exactly one state image
AddedImage(i) ==
    /\ i \in Calls
    /\ hist[i].op \in {"image", "import", "rollback"}
    /\ Len(hist[i].post.stateImages) = Len(hist[i].pre.stateImages) + 1

\* C11 as claimed: no two distinct state images have the same parent image
\* and at most one state image has a null parent
C11_SingleChain ==
    /\ \A a, b \in DOMAIN stateImages :
           (a # b /\ Parent(stateImages, a) # NoId) =>
               Parent(stateImages, a) # Parent(stateImages, b)
    /\ Cardinality(Roots(stateImages)) <= 1

\* C14: a create_state_image for an event without an image adds an image
\* whose parent is the image HEAD pointed at just before the call (null if
\* HEAD was unset) and leaves HEAD at the new image
C14_NewImageOnHead ==
    \A i \in Calls : AddedImage(i) =>
        LET sid == Len(hist[i].post.stateImages)
        IN  /\ Parent(hist[i].post.stateImages, sid) = hist[i].pre.head
            /\ hist[i].post.head = sid
            /\ hist[i].op = "image" =>
                   /\ hist[i].post.stateImages[sid].change_event_id = hist[i].target
                   /\ hist[i].ret = sid

C14_Witness ==
    \E i, j \in Calls :
        /\ IsImage(i) /\ AddedImage(i) /\ hist[i].pre.head # NoId
        /\ AddedImage(j) /\ hist[j].pre.head = NoId

\* the image reached from s by n parent links (NoId once past a root)
RECURSIVE Hops(_, _, _)
Hops(images, s, n) ==
    IF n = 0 \/ s \notin DOMAIN images THEN s
    ELSE Hops(images, Parent(images, s), n - 1)

\* C15: following parent links from any state image reaches a null parent
\* in at most as many hops as there are state images, visiting no image twice
C15_Acyclic ==
    \A s \in DOMAIN stateImages :
        /\ \E n \in 1..Len(stateImages) : Hops(stateImages, s, n) = NoId
        /\ \A m, n \in 0..Len(stateImages) :
               (m < n /\ Hops(stateImages, s, n) # NoId) =>
                   Hops(stateImages, s, m) # Hops(stateImages, s, n)

C15_Witness ==
    /\ Len(stateImages) >= 3
    /\ Hops(stateImages, head, 2) # NoId
    /\ \E i \in Calls : IsPit(i) /\ hist[i].status = "SUCCESS"


(***************************************************************************)
(* Properties of the chain walk                                            *)
(***************************************************************************)
\* the target's image is HEAD's image or met on the parent links from HEAD
TargetOnChain(i) ==
    /\ hist[i].pre.head # NoId
    /\ ImagesOf(hist[i].pre.stateImages, hist[i].target)
           \cap Closure(hist[i].pre.stateImages, {hist[i].pre.head}) # {}
\* the target has an image, and it is not met on the parent links from HEAD
TargetOffChain(i) ==
    /\ hist[i].pre.head # NoId
    /\ ImagesOf(hist[i].pre.stateImages, hist[i].target) # {}
    /\ ImagesOf(hist[i].pre.stateImages, hist[i].target)
           \cap Closure(hist[i].pre.stateImages, {hist[i].pre.head}) = {}
\* the parent links followed from HEAD run into a cycle
CycleFromHead(i) ==
    \E s \in Closure(hist[i].pre.stateImages, {hist[i].pre.head}) \cap
                 DOMAIN hist[i].pre.stateImages :
        s \in Closure(hist[i].pre.stateImages, {Parent(hist[i].pre.stateImages, s)})

\* C16: when the target's image is HEAD or an ancestor of HEAD, the walk
\* returns a list that starts with HEAD's image, ends with the target's
\* image, holds each image at most once, and in which every element after
\* the first is the parent of the element before it
C16_WalkHeadToTarget ==
    \A i \in Calls : (IsPit(i) /\ TargetOnChain(i)) =>
        LET chain == hist[i].chain
            images == hist[i].pre.stateImages
        IN  /\ hist[i].status \in {"NO_OP", "SUCCESS", "RAISED"}
            /\ chain # <<>>
            /\ chain[1] = hist[i].pre.head
            /\ chain[Len(chain)] \in ImagesOf(images, hist[i].target)
            /\ \A a, b \in 1..Len(chain) : a # b => chain[a] # chain[b]
            /\ \A k \in 2..Len(chain) : chain[k] = Parent(images, chain[k - 1])

C16_Witness ==
    \E i \in Calls :
        /\ IsPit(i) /\ TargetOnChain(i)
        /\ Len(hist[i].chain) = 3
        /\ CycleFromHead(i)

\* C17: when the target has an image that is not HEAD and not an ancestor
\* of HEAD, the walk ends at the root with the not-reachable error and
\* returns no list
C17_OffChainUnreachable ==
    \A i \in Calls : (IsPit(i) /\ TargetOffChain(i)) =>
        /\ hist[i].status = "UNREACHABLE"
        /\ hist[i].chain = <<>>
        /\ hist[i].calls = <<>>

C17_Witness ==
    \E i \in Calls :
        /\ IsPit(i) /\ TargetOffChain(i)
        /\ Parent(hist[i].pre.stateImages,
                  get_state_image_by_change_event(hist[i].pre.stateImages, hist[i].target))
               = hist[i].pre.head

\* C18 as claimed: when the parent links followed from HEAD contain a
\* cycle, the walk ends with the cycle error and returns no path, whatever
\* target (with an image) it is asked for
C18_CycleDetected ==
    \A i \in Calls :
        (IsPit(i) /\ hist[i].pre.head # NoId /\ CycleFromHead(i)
            /\ ImagesOf(hist[i].pre.stateImages, hist[i].target) # {}) =>
            /\ hist[i].status = "CYCLE"
            /\ hist[i].chain = <<>>

\* the same for the targets that are not met before the walk closes the cycle
C18_CycleDetectedOffChain ==
    \A i \in Calls :
        (IsPit(i) /\ CycleFromHead(i) /\ TargetOffChain(i)) =>
            /\ hist[i].status = "CYCLE"
            /\ hist[i].chain = <<>>


(***************************************************************************)
(* Properties of the audit trail                                           *)
(***************************************************************************)
IsPrefix(a, b) == Len(a) <= Len(b) /\ SubSeq(b, 1, Len(a)) = a

\* C19: no operation deletes a change event or deletes or modifies a
\* RowChange: over every call the ledger it found is a prefix of the ledger
\* it leaves, and every change event it found is still there
C19_AppendOnly ==
    \A i \in Calls :
        /\ IsPrefix(hist[i].pre.rowChanges, hist[i].post.rowChanges)
        /\ DOMAIN hist[i].pre.changeEvents \subseteq DOMAIN hist[i].post.changeEvents
        /\ i > 1 => hist[i].pre = hist[i - 1].post
        /\ i = Len(hist) => hist[i].post = Store

C19_Witness ==
    \E i, j \in Calls :
        /\ IsRollback(i) /\ hist[i].status = "SUCCESS"
        /\ hist[i].post.tbl # hist[i].pre.tbl
        /\ hist[j].op = "import" /\ hist[j].pre.rowChanges # <<>>
        /\ \E k \in (Len(hist[j].pre.rowChanges) + 1)..Len(hist[j].post.rowChanges) :
               hist[j].post.rowChanges[k].conflict

\* C20 as claimed: if R is the change event created by
\* rollback_change_event(E), then rollback_change_event(R) returns the
\* target tables to the state they had just before R ran
C20_RollbackOfRollback ==
    \A i \in Calls :
        (/\ IsRollback(i) /\ hist[i].status = "SUCCESS"
         /\ IsRollback(i + 1) /\ hist[i + 1].status = "SUCCESS"
         /\ hist[i + 1].target = hist[i].change_event_id) =>
            BusinessAll(hist[i + 1].post.tbl) = BusinessAll(hist[i].pre.tbl)


(***************************************************************************)
(* Properties of HEAD, in every state between the transactions of           *)
(* create_state_image                                                       *)
(***************************************************************************)
\* C12 as claimed: once a state image is persisted, HEAD refers to some
\* state image
C12_HeadSetOnceImage == stateImages # <<>> => head # NoId

\* C13: a non-null HEAD holds the id of an image of the image table
C13_HeadPersisted == head # NoId => head \in DOMAIN stateImages

\* a call whose insert was refused moved HEAD, next to a call that died
\* after its insert
C13_Witness ==
    /\ \E i \in Calls :
           /\ hist[i].op = "created"
           /\ hist[i].sid < NoId
           /\ hist[i].ret # NoId
           /\ head = hist[i].ret
    /\ Len(stateImages) > 1


(***************************************************************************)
(* Properties of a run, in every state between its transactions            *)
(***************************************************************************)
\* the positions of the RowChanges a step appends
NewRowChanges == (Len(rowChanges) + 1)..Len(rowChanges')
Finished(e) == e \in DOMAIN changeEvents /\ changeEvents[e].status # "RUNNING"

\* C21: whenever a step of run_import's merges or of the bootstrap load
\* appends a RowChange, the change event it references exists and has status
\* RUNNING before and after the step, so none is appended to an event after
\* finish_change_event was called for it
C21_WrittenInsideRun ==
    [][\A k \in NewRowChanges :
           /\ rowChanges'[k].change_event_id \in DOMAIN changeEvents
           /\ changeEvents[rowChanges'[k].change_event_id].status = "RUNNING"
           /\ changeEvents'[rowChanges'[k].change_event_id].status = "RUNNING"]_vars

C21_Witness ==
    /\ \E k \in DOMAIN rowChanges : rowChanges[k].table_name = Fact
    /\ \E k \in DOMAIN rowChanges :
           rowChanges[k].table_name \in Tables /\ rowChanges[k].applied
    /\ Len(changeEvents) = MaxRuns
    /\ \A e \in DOMAIN changeEvents : Finished(e)

IsRan(i) == i \in Calls /\ hist[i].op = "ran"
EventAfter(i) == hist[i].post.changeEvents[hist[i].change_event_id]
\* merge_upsert returned for the table in the run of call i
MergeCompleted(i, table) ==
    \E j \in 1..i :
        /\ hist[j].op = "merged"
        /\ hist[j].change_event_id = hist[i].change_event_id
        /\ hist[j].table = table

\* C22 as claimed: when the bulk fetch or the batch write of a merge fails
\* during run_import, that merge does not complete, run_import raises and
\* the run's change event has status FAILED; and no change event of a run
\* that has returned or raised has status RUNNING
C22_FailureRecorded ==
    \A i \in Calls : IsRan(i) =>
        /\ EventAfter(i).status # "RUNNING"
        /\ hist[i].failed_at \in {"merge", "write"} =>
               /\ hist[i].outcome = "raised"
               /\ EventAfter(i).status = "FAILED"
               /\ hist[i - 1].op = "merge_raised"
               /\ ~MergeCompleted(i, hist[i - 1].table)

\* the same for the runs whose handler committed its finish_change_event
C22_FailureRecordedByHandler ==
    \A i \in Calls : (IsRan(i) /\ hist[i].handler # "raised") =>
        /\ EventAfter(i).status # "RUNNING"
        /\ hist[i].failed_at \in {"merge", "write"} =>
               /\ hist[i].outcome = "raised"
               /\ EventAfter(i).status = "FAILED"
               /\ hist[i - 1].op = "merge_raised"
               /\ ~MergeCompleted(i, hist[i - 1].table)

\* the process stopped inside an ingestion run
IsCrashedRun(i) == i \in Calls /\ hist[i].op = "crashed" /\ hist[i].at # "boot"
\* the keys of a target table whose row the run of call i inserted or updated
WrittenKeys(i, t) ==
    {k \in DOMAIN hist[i].post.tbl[t] :
        \/ k \notin DOMAIN hist[i].pre.tbl[t]
        \/ Business(hist[i].post.tbl[t])[k] # Business(hist[i].pre.tbl[t])[k]}
HasAppliedRowChange(i, t, k) ==
    \E n \in DOMAIN hist[i].post.rowChanges :
        /\ hist[i].post.rowChanges[n].change_event_id = hist[i].change_event_id
        /\ hist[i].post.rowChanges[n].applied
        /\ hist[i].post.rowChanges[n].table_name = t
        /\ hist[i].post.rowChanges[n].pk = k
\* HEAD is null, as before the run, or holds the id of a stored image
HeadStaleAtWorst(i) ==
    /\ hist[i].post.head # NoId => hist[i].post.head \in DOMAIN hist[i].post.stateImages
    /\ \/ hist[i].post.head = hist[i].pre.head
       \/ /\ hist[i].post.head \in DOMAIN hist[i].post.stateImages
          /\ hist[i].post.stateImages[hist[i].post.head].change_event_id =
                 hist[i].change_event_id

\* C23 as claimed: when the process stops between two transactions of an
\* ingestion run, every target-table row the run inserted or updated has a
\* RowChange with applied = true under the run's change event, and HEAD is
\* at worst stale
C23_CrashConsistent ==
    \A i \in Calls : IsCrashedRun(i) =>
        /\ \A t \in Tables : \A k \in WrittenKeys(i, t) : HasAppliedRowChange(i, t, k)
        /\ HeadStaleAtWorst(i)

\* the part of C23 about HEAD
C23_HeadStaleAtWorst == \A i \in Calls : IsCrashedRun(i) => HeadStaleAtWorst(i)


(***************************************************************************)
(* Properties of the classification                                        *)
(***************************************************************************)
SameBusiness(i, n) == \A c \in Range(business_cols) : Stored(i, n)[c] = Row(i, n)[c]

\* C24: an incoming row whose stored counterpart has the same value in
\* every business column is classified UNCHANGED, whether the stored
\* fingerprint is missing, different or equal; it is not counted in updated,
\* no RowChange is appended for it, and the business columns of the stored
\* row are as before (when no other row of the frame carries its key)
C24_DriftNotUpdate ==
    \A i \in Calls : IsMerge(i) =>
        /\ hist[i].m.stats.updated = CountClass(i, "UPDATE")
        /\ \A n \in Rows(i) :
               (Exists(i, n) /\ SameBusiness(i, n)) =>
                   /\ Class(i, n) = "UNCHANGED"
                   /\ \A rc \in Appended(i) : rc.db_after # Row(i, n)
                   /\ KeyOnce(i, n) =>
                          Business(hist[i].m.after)[Row(i, n).pk] =
                              Business(hist[i].m.before)[Row(i, n).pk]

\* a stale stored fingerprint was rewritten by the backfill
C24_Witness ==
    \E i \in Calls : IsWetMerge(i) /\
        \E n \in Rows(i) :
            /\ Exists(i, n) /\ SameBusiness(i, n) /\ KeyOnce(i, n)
            /\ Stored(i, n).row_hash = StaleHash
            /\ hist[i].m.after[Row(i, n).pk].row_hash = Row(i, n).row_hash
            /\ hist[i].m.hash_backfilled_count = 1

\* the key cell of a row holds no key: missing, blank, or "nan"-like
NoKey(pk) == pk = Null \/ pk \in {"", " "} \/ pk \in {"nan", "none"}
KeyWritten(i, pk) ==
    \/ pk \in DOMAIN hist[i].m.after /\ pk \notin DOMAIN hist[i].m.before
    \/ \E rc \in Appended(i) : rc.pk = pk

\* C25 as claimed: every incoming row whose primary key is missing, blank
\* or "nan"-like is counted in rejected and is neither classified, written
\* nor audited; the other rows are processed
C25_BadKeysRejected ==
    \A i \in Calls : IsMerge(i) =>
        /\ hist[i].m.stats.rejected = Cardinality({n \in Rows(i) : NoKey(Row(i, n).pk)})
        /\ \A n \in Rows(i) :
               NoKey(Row(i, n).pk) =>
                   /\ Class(i, n) = "REJECTED"
                   /\ ~KeyWritten(i, Row(i, n).pk)

\* the same for the keys merge_upsert tests for: missing or blank
C25_BlankKeysRejected ==
    \A i \in Calls : IsMerge(i) =>
        /\ hist[i].m.stats.rejected = Cardinality({n \in Rows(i) : bad_pk(Row(i, n).pk)})
        /\ \A n \in Rows(i) :
               (Row(i, n).pk = Null \/ Row(i, n).pk \in {"", " "}) =>
                   /\ Class(i, n) = "REJECTED"
                   /\ ~KeyWritten(i, Row(i, n).pk)


(***************************************************************************)
(* Properties of the fingerprint                                           *)
(***************************************************************************)
IsHash(i) == i \in Calls /\ hist[i].op = "hash"
\* two cells hold the same value, null and the empty string taken as one
SameCell(a, b) == a = b \/ (a \in {Null, ""} /\ b \in {Null, ""})
\* row a of call i and row b of call j agree on the columns of call i
SameValues(i, a, j, b) ==
    \A c \in Range(hist[i].cols) : SameCell(hist[i].df[a][c], hist[j].df[b][c])

\* C26 as claimed: the fingerprint of a row over a set of columns is the
\* same on every computation, whatever the order the columns are listed in,
\* wherever the row stands in the frame, and whether a cell is null or the
\* empty string
C26_FingerprintDeterministic ==
    \A i, j \in Calls :
        (IsHash(i) /\ IsHash(j) /\ Range(hist[i].cols) = Range(hist[j].cols)) =>
            \A a \in DOMAIN hist[i].df, b \in DOMAIN hist[j].df :
                SameValues(i, a, j, b) => hist[i].ret[a] = hist[j].ret[b]

\* the same for two computations that list the columns in the same order
C26_DeterministicInListOrder ==
    \A i, j \in Calls :
        (IsHash(i) /\ IsHash(j) /\ hist[i].cols = hist[j].cols) =>
            \A a \in DOMAIN hist[i].df, b \in DOMAIN hist[j].df :
                SameValues(i, a, j, b) => hist[i].ret[a] = hist[j].ret[b]


(***************************************************************************)
(* Properties of the ledger of a run                                       *)
(***************************************************************************)
CountOf(rcs, applied, conflict) ==
    Cardinality({k \in DOMAIN rcs : rcs[k].applied = applied /\ rcs[k].conflict = conflict})
IsWetMerged(i) == i \in Calls /\ hist[i].op = "merged" /\ ~hist[i].dry_run
\* the applied RowChanges of a sequence, in order
AppliedOf(rcs) == SelectSeq(rcs, LAMBDA rc : rc.applied)

\* whenever merge_upsert returned from a non-dry-run call, its applied
\* RowChanges are those of its staged rows, one each and in order, their
\* number is inserted + updated, and its unapplied conflict RowChanges
\* number conflicted; a merge whose batch write raised appended none applied
LedgerMatchesStats ==
    \A i \in Calls :
        /\ IsWetMerged(i) =>
               /\ Len(AppliedOf(hist[i].appended)) = Len(hist[i].writes)
               /\ \A k \in DOMAIN hist[i].writes :
                      /\ AppliedOf(hist[i].appended)[k].db_after = hist[i].writes[k].row
                      /\ AppliedOf(hist[i].appended)[k].op = hist[i].writes[k].op
               /\ CountOf(hist[i].appended, TRUE, FALSE) =
                      hist[i].stats.inserted + hist[i].stats.updated
               /\ CountOf(hist[i].appended, TRUE, TRUE) = 0
               /\ CountOf(hist[i].appended, FALSE, TRUE) = hist[i].stats.conflicted
        /\ (hist[i].op = "merge_raised" /\ hist[i].at = "write") =>
               AppliedOf(hist[i].appended) = <<>>

\* C27: a step of merge_upsert appends an applied RowChange only when the
\* batch write has committed (the target table holds a row for its key,
\* last written by the run's change event), and the ledger of each merge
\* matches its counts as stated in LedgerMatchesStats
C27_WriteThenAudit ==
    [][/\ \A k \in NewRowChanges :
              (rowChanges'[k].applied /\ rowChanges'[k].table_name \in Tables) =>
                  /\ rowChanges'[k].pk \in DOMAIN tbl[rowChanges'[k].table_name]
                  /\ tbl[rowChanges'[k].table_name][rowChanges'[k].pk].last_change_event_id =
                         rowChanges'[k].change_event_id
                  /\ tbl' = tbl
       /\ LedgerMatchesStats']_vars

C27_Witness ==
    /\ \E i \in Calls : IsWetMerged(i) /\ hist[i].stats.conflicted > 0
    /\ \E i \in Calls : IsWetMerged(i) /\ hist[i].stats.updated > 0
    /\ \E i \in Calls :
           /\ hist[i].op = "merge_raised" /\ hist[i].at = "write"
           /\ \E j \in 1..i : IsWetMerged(j) /\ hist[j].stats.updated > 0
                                 /\ hist[j].change_event_id = hist[i].change_event_id


(***************************************************************************)
(* Properties of the counts of merge_upsert                                *)
(***************************************************************************)
Classes == {"INSERT", "UPDATE", "UNCHANGED", "CONFLICT", "REJECTED"}
StatsSum(st) == st.inserted + st.updated + st.unchanged + st.conflicted + st.rejected

\* C28: every call of merge_upsert, dry-run or not, puts each incoming row
\* in exactly one of the five classes and counts it there once, so the
\* five counts add up to the number of incoming rows
C28_ClassificationPartition ==
    \A i \in Calls : IsMerge(i) =>
        /\ Len(hist[i].m.classes) = Len(hist[i].m.df)
        /\ \A n \in Rows(i) : Class(i, n) \in Classes
        /\ hist[i].m.stats.inserted = CountClass(i, "INSERT")
        /\ hist[i].m.stats.updated = CountClass(i, "UPDATE")
        /\ hist[i].m.stats.unchanged = CountClass(i, "UNCHANGED")
        /\ hist[i].m.stats.conflicted = CountClass(i, "CONFLICT")
        /\ hist[i].m.stats.rejected = CountClass(i, "REJECTED")
        /\ StatsSum(hist[i].m.stats) = Len(hist[i].m.df)

C28_Witness ==
    /\ \E i \in Calls :
           /\ IsWetMerge(i)
           /\ hist[i].m.stats.rejected = 1 /\ hist[i].m.stats.updated = 1
    /\ \E i \in Calls :
           /\ IsMerge(i) /\ hist[i].dry_run
           /\ hist[i].m.stats.rejected = 1 /\ hist[i].m.stats.updated = 1
    /\ \E i \in Calls :
           /\ IsMerge(i)
           /\ hist[i].m.stats.rejected = 1 /\ hist[i].m.stats.unchanged = 1

(***************************************************************************)
(* Properties of the counts persisted on a change event                    *)
(***************************************************************************)
IngestionSources == {"file_upload", "bootstrap_gold"}
\* the number of rowChanges of event e with applied = TRUE
AppliedUnder(e) ==
    Cardinality({k \in DOMAIN rowChanges :
                    rowChanges[k].change_event_id = e /\ rowChanges[k].applied})
\* the number of rowChanges of event e with conflict = TRUE
ConflictsUnder(e) ==
    Cardinality({k \in DOMAIN rowChanges :
                    rowChanges[k].change_event_id = e /\ rowChanges[k].conflict})
CountsMatchLedger(e) ==
    /\ changeEvents[e].inserted_count + changeEvents[e].updated_count = AppliedUnder(e)
    /\ changeEvents[e].conflicted_count = ConflictsUnder(e)

\* C29: every change event of an ingestion run whose status is SUCCESS,
\* CONFLICTS, DRY_RUN or FAILED has inserted_count + updated_count equal to
\* the number of its RowChanges with applied = TRUE, and conflicted_count
\* equal to the number of its RowChanges with conflict = TRUE
C29_CountsMatchLedger ==
    \A e \in DOMAIN changeEvents :
        (/\ changeEvents[e].source_name \in IngestionSources
         /\ changeEvents[e].status \in {"SUCCESS", "CONFLICTS", "DRY_RUN", "FAILED"})
            => CountsMatchLedger(e)

\* the part of C29 that holds: the events that are not dry runs and whose
\* status is SUCCESS or CONFLICTS
C29_CountsMatchLedgerOnSuccess ==
    \A e \in DOMAIN changeEvents :
        (/\ changeEvents[e].source_name \in IngestionSources
         /\ changeEvents[e].status \in {"SUCCESS", "CONFLICTS"})
            => CountsMatchLedger(e)

\* a FAILED event of a run that is not a dry run, with zero counts and an
\* applied RowChange
C29_FailedWithLedger ==
    \E e \in DOMAIN changeEvents :
        /\ changeEvents[e].status = "FAILED" /\ ~changeEvents[e].dry_run
        /\ AppliedUnder(e) > 0
        /\ changeEvents[e].inserted_count + changeEvents[e].updated_count = 0

\* a run whose merges all returned, whose rows and RowChanges are committed,
\* is FAILED with zero counts once the steps after the merges raise
C29_FailedAfterMerges ==
    \E i \in Calls :
        /\ IsRan(i) /\ hist[i].failed_at = "finish" /\ hist[i].handler = "committed"
        /\ AppliedUnder(hist[i].change_event_id) > 0
        /\ EventAfter(i).status = "FAILED" /\ EventAfter(i).inserted_count = 0

(***************************************************************************)
(* Properties of racing create_state_image calls                           *)
(***************************************************************************)
IsCreated(i) == i \in Calls /\ hist[i].op = "created"
\* the "begin" record of the call that returned at record i
BeginOf(i) ==
    CHOOSE b \in 1..i :
        /\ hist[b].op = "begin" /\ hist[b].proc = hist[i].proc
        /\ \A c \in (b + 1)..(i - 1) : hist[c].proc # hist[i].proc
\* the calls returning at records i < j are calls of two processes for the
\* same event, and the second had begun before the first returned
Raced(i, j) ==
    /\ IsCreated(i) /\ IsCreated(j) /\ i < j
    /\ hist[i].target = hist[j].target
    /\ hist[i].proc # hist[j].proc
    /\ BeginOf(j) < i
RaceStart(i, j) == IF BeginOf(i) < BeginOf(j) THEN BeginOf(i) ELSE BeginOf(j)
\* no call for another event ran while the calls of records i and j did,
\* and none began after them
NoOtherCall(i, j) ==
    /\ j = Len(hist)
    /\ \A b \in 1..j :
           (hist[b].op = "begin" /\ hist[b].target # hist[i].target) =>
               \E c \in (b + 1)..RaceStart(i, j) : hist[c].proc = hist[b].proc

\* C30: when two create_state_image calls for the same event ran at the same
\* time and both returned, exactly one state image is stored for the event,
\* both calls returned it, and HEAD is that image once both have returned
\* (no call for another event having run meanwhile)
C30_RacingCreationsConverge ==
    \A i \in Calls : \A j \in Calls :
        Raced(i, j) =>
            /\ Cardinality(ImagesOf(stateImages, hist[i].target)) = 1
            /\ hist[i].ret \in ImagesOf(stateImages, hist[i].target)
            /\ hist[j].ret = hist[i].ret
            /\ NoOtherCall(i, j) => head = hist[i].ret

\* both calls found no image and tried the insert, the insert of one was
\* refused, and both have returned
C30_Witness ==
    \E i \in Calls : \E j \in Calls :
        /\ Raced(i, j) /\ NoOtherCall(i, j)
        /\ hist[i].sid # NoId /\ hist[j].sid # NoId
        /\ (hist[i].sid < NoId \/ hist[j].sid < NoId)
        /\ head = hist[i].ret

====
